---- MODULE Spec2Model ----
(***************************************************************************)
(* The retrying HTTP fetcher of the Async Weather & News Dashboard:        *)
(* HttpClient.makeRequest / attemptRequest / makeRequestPromise            *)
(* (src/src/utils/httpClient.ts), as a timed state machine.                *)
(*                                                                         *)
(* One call is followed from its start to quiescence.  The environment     *)
(* (Node's http module and the remote server) raises, for each attempt,    *)
(* the events the handlers of attemptRequest are registered for:           *)
(*   - 'end' of a response, with a status code and a body;                 *)
(*   - 'error' of the request (transport failure);                         *)
(*   - 'timeout' of the request; the handler destroys the request, and a   *)
(*     request destroyed before its response was received emits 'error'    *)
(*     (ECONNRESET, "socket hang up"); one destroyed after the response    *)
(*     began emits nothing more on the request.  Which of the two holds    *)
(*     is the environment's choice.                                        *)
(* Time is in milliseconds; an event happens at a time no later than any   *)
(* pending deadline (a retry timer, the timeout of an attempt in flight).  *)
(*                                                                         *)
(* On top of it, the demonstrations of the three dashboards                *)
(* (CallbackDashboard in src/unnamed/part_001, PromiseDashboard in         *)
(* src/unnamed/part_003, AsyncAwaitDashboard in src/src/utils/logger.ts):  *)
(* each fetch of a demonstration is one call of HttpClient, and the        *)
(* continuation of a fetch runs in the step of the handler that invoked    *)
(* the callback of its call.                                               *)
(***************************************************************************)
EXTENDS Integers, Sequences, FiniteSets, TLC

(* ------------------------------------------------------------------ *)
(* Program constants                                                  *)
(* ------------------------------------------------------------------ *)
DEFAULT_TIMEOUT == 10000
DEFAULT_RETRIES == 3
DEFAULT_RETRY_DELAY == 1000

(* ------------------------------------------------------------------ *)
(* Bounds of the model                                                *)
(* ------------------------------------------------------------------ *)
\* largest explicit value of options.retries
MaxRetries == 2
\* no more than this many attempts are started in one call
MaxAttempts == 4
\* no more than this many attempts of a demonstration fail with a status
\* outside 2xx or time out
MaxFaults == 1
\* temperatures range from -MaxTemperature to MaxTemperature degrees
MaxTemperature == 35

(* ------------------------------------------------------------------ *)
(* Inputs                                                             *)
(* ------------------------------------------------------------------ *)
\* a field of FetchOptions that the caller left out
Undef == -1

Urls == {"https://api.example.com/data"}

\* the options a caller may pass: none (as every caller of the repository does),
\* a retry count alone, or all three fields
FetchOptions ==
  [timeout : {Undef}, retries : (0..MaxRetries) \cup {Undef}, retryDelay : {Undef}]
    \cup [timeout : {2000}, retries : 0..MaxRetries, retryDelay : {250}]

\* milliseconds a response or a transport error takes to arrive
Latencies == {100}

SuccessStatuses == {200, 299}
FailureStatuses == {300, 500}
Statuses == SuccessStatuses \cup FailureStatuses

\* response bodies, as text
Bodies == {"{}", "[]", "0", "false", "null", "\"\"", "", "<html>"}

\* what the server answers: a 2xx with any body, or a failure status with an error page
Responses ==
  (SuccessStatuses \X Bodies) \cup (FailureStatuses \X {"<html>"})

\* the endpoints of the dashboards
WEATHER_API_URL ==
  "https://api.open-meteo.com/v1/forecast?latitude=52.52&longitude=13.41&current=temperature_2m,relative_humidity_2m,wind_speed_10m&timezone=auto"
NEWS_API_URL == "https://dummyjson.com/posts?limit=5"

\* bodies of the weather endpoint: a forecast, and an object without `current`
WeatherJson == "{\"current\":{\"temperature_2m\":15}}"
\* bodies of the news endpoint: posts, an empty list of posts, no list at all
NewsJson == "{\"posts\":[{\"id\":1,\"title\":\"t\"}]}"
EmptyNewsJson == "{\"posts\":[]}"
\* the URL demonstratePromiseAllSettled expects to fail
INVALID_URL == "https://invalid-url.example.com/api"

(* ------------------------------------------------------------------ *)
(* JavaScript values                                                  *)
(* ------------------------------------------------------------------ *)
JsVal(t, v) == [t |-> t, v |-> v]
Undefined == JsVal("undefined", "")

\* JSON.parse: the parsed value, or a SyntaxError
JsonParse(body) ==
  CASE body = "{}"     -> [ok |-> TRUE, val |-> JsVal("object", "{}")]
    [] body = "[]"     -> [ok |-> TRUE, val |-> JsVal("array", "[]")]
    [] body = "[1]"    -> [ok |-> TRUE, val |-> JsVal("array", "[1]")]
    [] body = "0"      -> [ok |-> TRUE, val |-> JsVal("number", "0")]
    [] body = "7"      -> [ok |-> TRUE, val |-> JsVal("number", "7")]
    [] body = "false"  -> [ok |-> TRUE, val |-> JsVal("boolean", "false")]
    [] body = "true"   -> [ok |-> TRUE, val |-> JsVal("boolean", "true")]
    [] body = "null"   -> [ok |-> TRUE, val |-> JsVal("null", "null")]
    [] body = "\"\""   -> [ok |-> TRUE, val |-> JsVal("string", "")]
    [] body = "\"ok\"" -> [ok |-> TRUE, val |-> JsVal("string", "ok")]
    [] body = WeatherJson   -> [ok |-> TRUE, val |-> JsVal("object", WeatherJson)]
    [] body = NewsJson      -> [ok |-> TRUE, val |-> JsVal("object", NewsJson)]
    [] body = EmptyNewsJson -> [ok |-> TRUE, val |-> JsVal("object", EmptyNewsJson)]
    [] OTHER           -> [ok |-> FALSE, val |-> Undefined]

\* the truthiness of a value, as `if (data)` sees it
Truthy(val) ==
  CASE val.t \in {"object", "array"} -> TRUE
    [] val.t = "number"              -> val.v # "0"
    [] val.t = "boolean"             -> val.v = "true"
    [] val.t = "string"              -> val.v # ""
    [] OTHER                         -> FALSE

(* ------------------------------------------------------------------ *)
(* Errors                                                             *)
(* ------------------------------------------------------------------ *)
\* an Error: its kind, a number of its message (status code, timeout), and the
\* attempt whose failure it describes (0: none)
Err(kind, code, attempt) == [kind |-> kind, code |-> code, attempt |-> attempt]
NoError == Err("null", 0, 0)

VARIABLES
  pc,        \* "idle" before the call, "called" after
  mode,      \* "callback": makeRequest; "promise": makeRequestPromise
  opts,      \* the FetchOptions of the call
  attempts,  \* the attempts started so far, in order of start
  timers,    \* the retry timers pending
  calls,     \* the invocations of the caller's callback, in order
  promise,   \* the promise of makeRequestPromise
  now,       \* the clock, ms
  demo,      \* the demonstration of a dashboard that runs ("none": a bare call)
  fetches,   \* the fetches the demonstration started, in order of start
  dtimers,   \* the timers of the demonstration that are pending
  dash       \* the local state of the demonstration

vars == <<pc, mode, opts, attempts, timers, calls, promise, now,
          demo, fetches, dtimers, dash>>
\* the state of the dashboards
dvars == <<demo, fetches, dtimers, dash>>

(* ------------------------------------------------------------------ *)
(* The caller's callback                                              *)
(* ------------------------------------------------------------------ *)
NoPromise == [state |-> "none", value |-> Undefined, error |-> NoError]
PendingPromise == [state |-> "pending", value |-> Undefined, error |-> NoError]

\* resolve and reject settle a pending promise and do nothing to a settled one
Resolve(p, val) ==
  IF p.state = "pending" THEN [state |-> "fulfilled", value |-> val, error |-> NoError] ELSE p
Reject(p, error) ==
  IF p.state = "pending" THEN [state |-> "rejected", value |-> Undefined, error |-> error] ELSE p

\* the callback makeRequestPromise passes to makeRequest
PromiseCallback(p, error, data) ==
  IF error # NoError THEN Reject(p, error)
  ELSE IF Truthy(data) THEN Resolve(p, data)
  ELSE Reject(p, Err("nodata", 0, 0))

\* The effect of a handler is built from the state it starts in.
Cur == [calls |-> calls, promise |-> promise, timers |-> timers]

\* callback(error, data), invoked by the handler of attempt a at time t
Callback(e, error, data, a, t) ==
  [e EXCEPT !.calls = Append(@, [err |-> error, data |-> data, by |-> a, at |-> t]),
            !.promise = IF mode = "promise" THEN PromiseCallback(@, error, data) ELSE @]

(* ------------------------------------------------------------------ *)
(* attemptRequest and its handlers                                    *)
(* ------------------------------------------------------------------ *)
\* (a variant with backoff: the delay grows with the number of attempts made)
RetryDelayBackoff == DEFAULT_RETRY_DELAY * Len(attempts)

\* the delay every setTimeout of attemptRequest is given
RetryDelay == DEFAULT_RETRY_DELAY

\* client.get(url, {timeout}, ...): a request in flight
StartAttempt(url, timeout, retriesLeft, parent, t) ==
  [url |-> url, timeout |-> timeout, retriesLeft |-> retriesLeft,
   parent |-> parent, start |-> t, ended |-> Undef,
   st |-> "inflight", result |-> "pending"]

\* (a variant with one retry budget for all the calls: every attempt made, of
\* whatever call, is counted against it)
ScheduleRetrySharedBudget(e, a, cause, t) ==
  [e EXCEPT !.timers = @ \cup
     {[due |-> t + RetryDelay, delay |-> RetryDelay, url |-> attempts[a].url,
       timeout |-> attempts[a].timeout,
       retriesLeft |-> DEFAULT_RETRIES - Len(attempts),
       from |-> a, cause |-> cause]}]

\* (a variant that retries with the budget of the failed attempt)
ScheduleRetryKeepsBudget(e, a, cause, t) ==
  [e EXCEPT !.timers = @ \cup
     {[due |-> t + RetryDelay, delay |-> RetryDelay, url |-> attempts[a].url,
       timeout |-> attempts[a].timeout, retriesLeft |-> attempts[a].retriesLeft,
       from |-> a, cause |-> cause]}]

\* setTimeout(() => this.attemptRequest(url, callback, timeout, retriesLeft - 1), delay)
ScheduleRetry(e, a, cause, t) ==
  [e EXCEPT !.timers = @ \cup
     {[due |-> t + RetryDelay, delay |-> RetryDelay, url |-> attempts[a].url,
       timeout |-> attempts[a].timeout, retriesLeft |-> attempts[a].retriesLeft - 1,
       from |-> a, cause |-> cause]}]

\* (a variant that retries after a failure caught in the 'end' handler)
OnCatchRetries(e, a, error, t) ==
  IF attempts[a].retriesLeft > 0
  THEN ScheduleRetry(e, a, error.kind, t)
  ELSE Callback(e, error, Undefined, a, t)

\* the catch block of the 'end' handler
OnCatch(e, a, error, t) == Callback(e, error, Undefined, a, t)

\* (a variant that passes the exhaustion error in the data position)
OnStatusErrorAsData(e, a, status, t) ==
  IF attempts[a].retriesLeft > 0
  THEN ScheduleRetry(e, a, "status", t)
  ELSE Callback(e, NoError, JsVal("object", "Error"), a, t)

\* the else branch of the 'end' handler: a status outside [200, 300)
OnStatusError(e, a, status, t) ==
  IF attempts[a].retriesLeft > 0
  THEN ScheduleRetry(e, a, "status", t)
  ELSE Callback(e, Err("status", status, a), Undefined, a, t)

\* res.on("end", ...)
OnEnd(e, a, status, body, throws, t) ==
  IF status # 0 /\ status >= 200 /\ status < 300
  THEN LET p == JsonParse(body) IN
       IF p.ok
       THEN LET e1 == Callback(e, NoError, p.val, a, t) IN
            IF throws THEN OnCatch(e1, a, Err("thrown", 0, a), t) ELSE e1
       ELSE OnCatch(e, a, Err("parse", 0, a), t)
  ELSE OnStatusError(e, a, status, t)

\* (a variant that drops the failure of an attempt with no retries left)
OnErrorDropsFailure(e, a, error, t) ==
  IF attempts[a].retriesLeft > 0
  THEN ScheduleRetry(e, a, error.kind, t)
  ELSE e

\* req.on("error", ...)
OnError(e, a, error, t) ==
  IF attempts[a].retriesLeft > 0
  THEN ScheduleRetry(e, a, error.kind, t)
  ELSE Callback(e, error, Undefined, a, t)

\* (a variant that reports the first timeout without retrying)
OnTimeoutFailsAtOnce(e, a, t) ==
  Callback(e, Err("timeout", attempts[a].timeout, a), Undefined, a, t)

\* req.on("timeout", ...), after req.destroy()
OnTimeout(e, a, t) ==
  IF attempts[a].retriesLeft > 0
  THEN ScheduleRetry(e, a, "timeout", t)
  ELSE Callback(e, Err("timeout", attempts[a].timeout, a), Undefined, a, t)

\* how an 'end' with this status and body leaves the attempt
EndResult(status, body) ==
  IF status # 0 /\ status >= 200 /\ status < 300
  THEN IF JsonParse(body).ok THEN "success" ELSE "parse"
  ELSE "status"

(* ------------------------------------------------------------------ *)
(* Calls                                                              *)
(* ------------------------------------------------------------------ *)
\* the call an attempt belongs to, named by the first attempt of the call
RECURSIVE CallOf(_)
CallOf(a) == IF attempts[a].parent = 0 THEN a ELSE CallOf(attempts[a].parent)

AttemptsOfCall(c) == {i \in 1..Len(attempts) : CallOf(i) = c}

(* ------------------------------------------------------------------ *)
(* Time                                                               *)
(* ------------------------------------------------------------------ *)
InFlight == {i \in 1..Len(attempts) : attempts[i].st = "inflight"}
Destroyed == {i \in 1..Len(attempts) : attempts[i].st = "destroyed"}

\* the times by which something pending must have happened
Deadlines ==
  {tm.due : tm \in timers}
    \cup {tm.due : tm \in dtimers}
    \cup {attempts[i].start + attempts[i].timeout : i \in InFlight}
    \cup {now : i \in Destroyed}

MayHappenAt(t) == t >= now /\ \A d \in Deadlines : t <= d

(* ------------------------------------------------------------------ *)
(* Initial state and actions                                          *)
(* ------------------------------------------------------------------ *)
Init ==
  /\ pc = "idle"
  /\ mode = "callback"
  /\ opts = [timeout |-> Undef, retries |-> Undef, retryDelay |-> Undef]
  /\ attempts = <<>>
  /\ timers = {}
  /\ calls = <<>>
  /\ promise = NoPromise
  /\ now = 0
  /\ demo = "none"
  /\ fetches = <<>>
  /\ dtimers = {}
  /\ dash = [phase |-> "none"]

\* const { timeout = DEFAULT_TIMEOUT, retries = DEFAULT_RETRIES } = options
OptTimeout(o) == IF o.timeout = Undef THEN DEFAULT_TIMEOUT ELSE o.timeout
OptRetries(o) == IF o.retries = Undef THEN DEFAULT_RETRIES ELSE o.retries

\* HttpClient.makeRequest(url, callback, options)
MakeRequest(url, o) ==
  /\ pc = "idle"
  /\ pc' = "called"
  /\ mode' = "callback"
  /\ opts' = o
  /\ attempts' = <<StartAttempt(url, OptTimeout(o), OptRetries(o), 0, now)>>
  /\ UNCHANGED <<timers, calls, promise, now>>

\* HttpClient.makeRequestPromise(url, options)
MakeRequestPromise(url, o) ==
  /\ pc = "idle"
  /\ pc' = "called"
  /\ mode' = "promise"
  /\ opts' = o
  /\ promise' = PendingPromise
  /\ attempts' = <<StartAttempt(url, OptTimeout(o), OptRetries(o), 0, now)>>
  /\ UNCHANGED <<timers, calls, now>>

Apply(e) ==
  /\ calls' = e.calls
  /\ promise' = e.promise
  /\ timers' = e.timers

\* the response of attempt a ends, lat ms after the attempt started; throws: the
\* caller's callback throws while it handles the success value
ResponseEnd(a, status, body, throws, lat) ==
  /\ pc = "called"
  /\ a \in InFlight
  /\ throws => mode = "callback" /\ EndResult(status, body) = "success"
  /\ lat < attempts[a].timeout
  /\ MayHappenAt(attempts[a].start + lat)
  /\ now' = attempts[a].start + lat
  /\ attempts' = [attempts EXCEPT ![a].st = "ended", ![a].ended = now',
                                  ![a].result = EndResult(status, body)]
  /\ Apply(OnEnd(Cur, a, status, body, throws, now'))
  /\ UNCHANGED <<pc, mode, opts>>

\* the request of attempt a fails in transport, lat ms after the attempt started
RequestError(a, lat) ==
  /\ pc = "called"
  /\ a \in InFlight
  /\ lat < attempts[a].timeout
  /\ MayHappenAt(attempts[a].start + lat)
  /\ now' = attempts[a].start + lat
  /\ attempts' = [attempts EXCEPT ![a].st = "errored", ![a].ended = now',
                                  ![a].result = "transport"]
  /\ Apply(OnError(Cur, a, Err("transport", 0, a), now'))
  /\ UNCHANGED <<pc, mode, opts>>

\* attempt a times out; the handler destroys the request.  hangup: no response
\* had been received, so the destroyed request will emit 'error'
RequestTimeout(a, hangup) ==
  /\ pc = "called"
  /\ a \in InFlight
  /\ MayHappenAt(attempts[a].start + attempts[a].timeout)
  /\ now' = attempts[a].start + attempts[a].timeout
  /\ attempts' = [attempts EXCEPT ![a].st = IF hangup THEN "destroyed" ELSE "closed",
                                  ![a].ended = now', ![a].result = "timeout"]
  /\ Apply(OnTimeout(Cur, a, now'))
  /\ UNCHANGED <<pc, mode, opts>>

\* the request destroyed by its timeout handler emits 'error' (socket hang up)
HangUpError(a) ==
  /\ pc = "called"
  /\ a \in Destroyed
  /\ attempts' = [attempts EXCEPT ![a].st = "closed"]
  /\ Apply(OnError(Cur, a, Err("hangup", 0, a), now))
  /\ UNCHANGED <<pc, mode, opts, now>>

\* the promise a demonstration awaits (of Promise.race, of Promise.all) is settled
OuterSettled ==
  CASE demo = "race"               -> dash.race.state # "pending"
    [] demo \in {"all", "timeout"} -> dash.phase # "pending"
    [] OTHER                       -> FALSE

\* (a variant in which the retries still pending when the promise the
\* demonstration awaits has settled are given up)
RetryTimerFiresUnlessSettled(tm) ==
  /\ pc = "called"
  /\ tm \in timers
  /\ MayHappenAt(tm.due)
  /\ now' = tm.due
  /\ timers' = timers \ {tm}
  /\ attempts' =
       IF OuterSettled
       THEN attempts
       ELSE Append(attempts,
              StartAttempt(tm.url, tm.timeout, tm.retriesLeft, tm.from, tm.due))
  /\ UNCHANGED <<pc, mode, opts, calls, promise>>

\* no more than this many attempts are started in one call: MaxAttempts, and
\* enough to exceed twice MaxAttempts when the news endpoint goes out
AttemptsCap == IF demo = "outage" THEN 2 * MaxAttempts + 1 ELSE MaxAttempts

\* a retry timer fires: this.attemptRequest(url, callback, timeout, retriesLeft - 1)
RetryTimerFires(tm) ==
  /\ pc = "called"
  /\ tm \in timers
  /\ Cardinality(AttemptsOfCall(CallOf(tm.from))) < AttemptsCap
  /\ MayHappenAt(tm.due)
  /\ now' = tm.due
  /\ timers' = timers \ {tm}
  /\ attempts' = Append(attempts,
       StartAttempt(tm.url, tm.timeout, tm.retriesLeft, tm.from, tm.due))
  /\ UNCHANGED <<pc, mode, opts, calls, promise>>

Next ==
  \/ \E url \in Urls, o \in FetchOptions : MakeRequest(url, o) /\ UNCHANGED dvars
  \/ \E url \in Urls, o \in FetchOptions : MakeRequestPromise(url, o) /\ UNCHANGED dvars
  \/ \E a \in InFlight, r \in Responses, throws \in BOOLEAN, lat \in Latencies :
       ResponseEnd(a, r[1], r[2], throws, lat) /\ UNCHANGED dvars
  \/ \E a \in InFlight, lat \in Latencies : RequestError(a, lat) /\ UNCHANGED dvars
  \/ \E a \in InFlight, hangup \in BOOLEAN : RequestTimeout(a, hangup) /\ UNCHANGED dvars
  \/ \E a \in Destroyed : HangUpError(a) /\ UNCHANGED dvars
  \/ \E tm \in timers : RetryTimerFires(tm) /\ UNCHANGED dvars

Spec == Init /\ [][Next]_vars

\* The events of a call: what HttpClient's handlers are run by.
Events ==
  \/ \E a \in InFlight, r \in Responses, throws \in BOOLEAN, lat \in Latencies :
       ResponseEnd(a, r[1], r[2], throws, lat) /\ UNCHANGED dvars
  \/ \E a \in InFlight, lat \in Latencies : RequestError(a, lat) /\ UNCHANGED dvars
  \/ \E a \in InFlight, hangup \in BOOLEAN : RequestTimeout(a, hangup) /\ UNCHANGED dvars
  \/ \E a \in Destroyed : HangUpError(a) /\ UNCHANGED dvars
  \/ \E tm \in timers : RetryTimerFires(tm) /\ UNCHANGED dvars

\* the options with which every attempt a call can make is within MaxAttempts,
\* two retries of one attempt included
FittingOptions == {o \in FetchOptions : 2^(OptRetries(o) + 1) - 1 <= MaxAttempts}

LiveNext ==
  \/ \E url \in Urls, o \in FittingOptions : MakeRequest(url, o) /\ UNCHANGED dvars
  \/ \E url \in Urls, o \in FittingOptions : MakeRequestPromise(url, o) /\ UNCHANGED dvars
  \/ Events

\* Every attempt in flight raises 'end', 'error' or 'timeout', a destroyed
\* request emits its 'error', and every retry timer fires: as long as one of these
\* is pending, one of them happens.
SpecLive == Init /\ [][LiveNext]_vars /\ WF_vars(Events)

(* ------------------------------------------------------------------ *)
(* The dashboards: fetchWeather and fetchNews in the three styles     *)
(* ------------------------------------------------------------------ *)
\* The demonstrations of the dashboards call HttpClient with no options, one
\* call per fetch; several calls may be in progress at once.  A call is named
\* by its first attempt.  The continuations of a settled promise run in the
\* same step as the handler that settled it.

\* the outcome of an operation: a value, or an Error
Ok(value) == [ok |-> TRUE, value |-> value, error |-> NoError]
Fail(error) == [ok |-> FALSE, value |-> Undefined, error |-> error]

\* new Error(`<prefix>: ${error.message}`)
Wrap(prefix, error) == Err(prefix \o ": " \o error.kind, error.code, error.attempt)

\* data.current is an object, so that data.current.temperature_2m does not throw
HasCurrent(val) == val = JsVal("object", WeatherJson)

\* data.posts: "missing" (undefined), "empty" ([]) or "nonempty"
Posts(val) ==
  CASE val = JsVal("object", NewsJson)      -> "nonempty"
    [] val = JsVal("object", EmptyNewsJson) -> "empty"
    [] OTHER                                -> "missing"

\* the WeatherData built from the raw forecast
WeatherData(val) == JsVal("WeatherData", val.v)

\* what the promise of makeRequestPromise settles with when the callback it
\* passed to makeRequest is invoked with (error, data)
PromiseOutcome(error, data) ==
  LET p == PromiseCallback(PendingPromise, error, data) IN
  IF p.state = "fulfilled" THEN Ok(p.value) ELSE Fail(p.error)

\* CallbackDashboard.fetchWeather: what its callback is invoked with
CallbackFetchWeather(error, data) ==
  IF error # NoError THEN Fail(error)
  ELSE IF HasCurrent(data) THEN Ok(WeatherData(data))
  ELSE Fail(Err("TypeError", 0, 0))

\* CallbackDashboard.fetchNews: what its callback is invoked with
CallbackFetchNews(error, data) ==
  IF error # NoError THEN Fail(error)
  ELSE IF ~Truthy(data) \/ Posts(data) = "missing"
       THEN Fail(Err("Invalid news data structure", 0, 0))
       ELSE Ok(data)

\* PromiseDashboard.fetchWeather: what its promise settles with
PromiseFetchWeather(error, data) ==
  LET r == PromiseOutcome(error, data) IN
  IF ~r.ok THEN Fail(Wrap("Weather API Error", r.error))
  ELSE IF HasCurrent(r.value) THEN Ok(WeatherData(r.value))
  ELSE Fail(Wrap("Weather API Error", Err("TypeError", 0, 0)))

\* PromiseDashboard.fetchNews: what its promise settles with
PromiseFetchNews(error, data) ==
  LET r == PromiseOutcome(error, data) IN
  IF ~r.ok THEN Fail(Wrap("News API Error", r.error))
  ELSE IF ~Truthy(r.value) \/ Posts(r.value) = "missing" \/ Posts(r.value) = "empty"
       THEN Fail(Wrap("News API Error", Err("Invalid news data structure", 0, 0)))
       ELSE Ok(r.value)

\* AsyncAwaitDashboard.fetchWeather: what its promise settles with
AsyncFetchWeather(error, data) ==
  LET r == PromiseOutcome(error, data) IN
  IF ~r.ok THEN Fail(Wrap("Weather API Error", r.error))
  ELSE IF HasCurrent(r.value) THEN Ok(WeatherData(r.value))
  ELSE Fail(Wrap("Weather API Error", Err("TypeError", 0, 0)))

\* AsyncAwaitDashboard.fetchNews: what its promise settles with
AsyncFetchNews(error, data) ==
  LET r == PromiseOutcome(error, data) IN
  IF ~r.ok THEN Fail(Wrap("News API Error", r.error))
  ELSE IF ~Truthy(r.value) \/ Posts(r.value) = "missing" \/ Posts(r.value) = "empty"
       THEN Fail(Wrap("News API Error", Err("Invalid news data structure", 0, 0)))
       ELSE Ok(r.value)

\* a fetch to start: which operation, in which style
Op(kind, style) == [kind |-> kind, style |-> style]

\* the URL an operation requests
UrlOf(op) ==
  CASE op.kind = "weather" -> WEATHER_API_URL
    [] op.kind = "news"    -> NEWS_API_URL
    [] op.kind = "request" -> NEWS_API_URL
    [] OTHER               -> INVALID_URL

\* the outcome of a fetch whose HttpClient callback was invoked with (error, data)
FetchResult(op, error, data) ==
  CASE op = Op("weather", "callback") -> CallbackFetchWeather(error, data)
    [] op = Op("news", "callback")    -> CallbackFetchNews(error, data)
    [] op = Op("weather", "promise")  -> PromiseFetchWeather(error, data)
    [] op = Op("news", "promise")     -> PromiseFetchNews(error, data)
    [] op = Op("weather", "async")    -> AsyncFetchWeather(error, data)
    [] op = Op("news", "async")       -> AsyncFetchNews(error, data)
    [] OTHER                          -> PromiseOutcome(error, data)

\* the options of a call made without options
NoOptions == [timeout |-> Undef, retries |-> Undef, retryDelay |-> Undef]

\* a fetch just started, with call number c, at time t
NewFetch(op, c, t) ==
  [op |-> op, call |-> c, at |-> t, state |-> "pending", value |-> Undefined,
   error |-> NoError, settled |-> Undef, n |-> 0]

\* the fetch after its result r was delivered at time t
Settle(f, r, t) ==
  [f EXCEPT !.state = IF r.ok THEN "fulfilled" ELSE "rejected",
            !.value = r.value, !.error = r.error, !.settled = t, !.n = @ + 1]

\* the fetches ops are started at time t, each with a call to HttpClient
Launch(ops, t) ==
  /\ attempts' = attempts \o
       [i \in 1..Len(ops) |->
          StartAttempt(UrlOf(ops[i]), OptTimeout(NoOptions), OptRetries(NoOptions), 0, t)]
  /\ fetches' = fetches \o
       [i \in 1..Len(ops) |-> NewFetch(ops[i], Len(attempts) + i, t)]

Fetches == 1..Len(fetches)
\* the fetch that made call c
FetchOfCall(c) == CHOOSE f \in Fetches : fetches[f].call = c

\* The effect of a continuation is built from the state it starts in; start:
\* the fetches it starts.
DCur == [dash |-> dash, dtimers |-> dtimers, start |-> <<>>]

\* setTimeout(..., delay) at time t; id tells timers set alike apart
SetTimer(e, tag, delay, t) ==
  LET id == CHOOSE n \in 0..Cardinality(e.dtimers) : \A tm \in e.dtimers : tm.id # n IN
  [e EXCEPT !.dtimers = @ \cup {[due |-> t + delay, delay |-> delay, tag |-> tag, id |-> id]}]

(* ------------------------------------------------------------------ *)
(* AsyncAwaitDashboard.fetchWithRetry                                 *)
(* ------------------------------------------------------------------ *)
\* the arguments run() gives fetchWithRetry
RETRY_DEMO_MAX_RETRIES == 2
RETRY_DEMO_DELAY == 500

\* (a variant that wraps the error it throws)
FetchWithRetryOnSettleWraps(e, r, t) ==
  IF r.ok
  THEN [e EXCEPT !.dash.phase = "returned", !.dash.result = r.value]
  ELSE IF e.dash.attempt = e.dash.maxRetries
       THEN [e EXCEPT !.dash.phase = "threw",
                      !.dash.lastError = Wrap("All attempts failed", r.error)]
       ELSE SetTimer([e EXCEPT !.dash.phase = "delay", !.dash.lastError = r.error],
                     "retry", e.dash.retryDelay, t)

\* `await operation()` returned or threw: the try and the catch of the loop body
FetchWithRetryOnSettle(e, r, t) ==
  IF r.ok
  THEN [e EXCEPT !.dash.phase = "returned", !.dash.result = r.value]
  ELSE IF e.dash.attempt = e.dash.maxRetries
       THEN [e EXCEPT !.dash.phase = "threw", !.dash.lastError = r.error]
       ELSE SetTimer([e EXCEPT !.dash.phase = "delay", !.dash.lastError = r.error],
                     "retry", e.dash.retryDelay, t)

\* `await this.delay(retryDelay)` is over: the next iteration calls operation()
FetchWithRetryOnDelay(e, t) ==
  [e EXCEPT !.dash.phase = "op", !.dash.attempt = @ + 1,
            !.start = <<e.dash.operation>>]

\* fetchWithRetry(operation, maxRetries, retryDelay) is called: the loop is
\* entered if 1 <= maxRetries; if not, the `throw lastError!` after the loop
\* throws the unassigned lastError (undefined, here NoError)
FetchWithRetry(operation, maxRetries, retryDelay) ==
  [phase |-> IF 1 <= maxRetries THEN "op" ELSE "threw", attempt |-> 1,
   operation |-> operation, maxRetries |-> maxRetries,
   retryDelay |-> retryDelay, lastError |-> NoError, result |-> Undefined]

\* the calls of operation() that the call of fetchWithRetry makes at once
FirstInvocation(operation, maxRetries) ==
  IF 1 <= maxRetries THEN <<operation>> ELSE <<>>

(* ------------------------------------------------------------------ *)
(* The sequential demonstrations                                      *)
(* ------------------------------------------------------------------ *)
\* The three sequential demonstrations run one after the other, as in
\* runAllVersions, against endpoints that give the k-th request of a run the
\* same answer in every run: script holds the answers given so far, obs what the
\* finished runs did, base the number of attempts made before this run.
Sequential(style, script, obs, base) ==
  [style |-> style, phase |-> "weather", weather |-> Undefined, news |-> Undefined,
   reports |-> <<>>, script |-> script, obs |-> obs, base |-> base]

\* the demonstration logs its failure, or hands over the combined data
Report(e, what) == [e EXCEPT !.dash.reports = Append(@, what)]

\* CallbackDashboard.demonstrateCallbackHell: the callbacks given to
\* fetchWeather and to fetchNews
CallbackHellOnFetch(e, f, r, t) ==
  IF ~r.ok THEN Report(e, "failure")
  ELSE IF fetches[f].op.kind = "weather"
       THEN SetTimer([e EXCEPT !.dash.weather = r.value, !.dash.phase = "processing"],
                     "process weather", 200, t)
       ELSE SetTimer([e EXCEPT !.dash.news = r.value, !.dash.phase = "combining"],
                     "process combined", 300, t)

\* CallbackDashboard.demonstrateCallbackHell: the three nested setTimeout
\* callbacks; the last one displays the dashboard
CallbackHellOnTimer(e, tm, t) ==
  CASE tm.tag = "process weather" ->
         [e EXCEPT !.dash.phase = "news", !.start = <<Op("news", "callback")>>]
    [] tm.tag = "process combined" -> SetTimer(e, "display", 500, t)
    [] OTHER -> Report([e EXCEPT !.dash.phase = "done"], "success")

\* PromiseDashboard.demonstratePromiseChaining and
\* AsyncAwaitDashboard.demonstrateSequentialAsync: the continuations of
\* fetchWeather() and of fetchNews(), and the catch
ChainOnFetch(e, f, r, t) ==
  IF ~r.ok THEN Report([e EXCEPT !.dash.phase = "failed"], "failure")
  ELSE IF fetches[f].op.kind = "weather"
       THEN SetTimer([e EXCEPT !.dash.weather = r.value, !.dash.phase = "processing"],
                     "process weather", 200, t)
       ELSE Report([e EXCEPT !.dash.news = r.value, !.dash.phase = "done"], "success")

\* the continuation of the 200 ms of processing: fetchNews()
ChainOnTimer(e, tm, t) ==
  [e EXCEPT !.dash.phase = "news", !.start = <<Op("news", e.dash.style)>>]

\* the place of attempt a among the requests its run made to the same URL
Ordinal(a) ==
  Cardinality({b \in (dash.base + 1)..a : attempts[b].url = attempts[a].url})

\* what an endpoint does with a request: it answers, or it lets it time out
Answer(r) == [ev |-> "end", status |-> r[1], body |-> r[2], hangup |-> FALSE]
NoAnswer(hangup) == [ev |-> "timeout", status |-> 0, body |-> "", hangup |-> hangup]

\* the attempts that failed with a status outside 2xx or timed out
Faulted == {i \in 1..Len(attempts) : attempts[i].result \in {"status", "timeout"}}

\* the endpoint fails the request
IsFault(o) == o.ev = "timeout" \/ EndResult(o.status, o.body) = "status"

\* the entries of the script for the request of attempt a
ScriptFor(a) == {x \in dash.script : x.url = attempts[a].url /\ x.k = Ordinal(a)}

\* The news endpoint goes out while the retry demonstration runs: the request
\* made as the demonstration begins is answered with 200, every later request
\* receives nothing, so that it emits 'error' once its timeout handler has
\* destroyed it.
InOutage(a) == attempts[a].start > fetches[1].at

\* the endpoint answers with 200 and the body the demonstrations expect
GoodAnswer(o) ==
  o.ev = "end" /\ EndResult(o.status, o.body) = "success"
               /\ o.body \in {WeatherJson, NewsJson}

\* the attempts that were given anything else
Troubled ==
  {i \in 1..Len(attempts) : attempts[i].result \in {"status", "timeout", "parse"}}
    \cup {calls[k].by : k \in {j \in 1..Len(calls) :
                                 /\ calls[j].err = NoError
                                 /\ calls[j].data \notin {JsonParse(WeatherJson).val,
                                                          JsonParse(NewsJson).val}}}

\* The endpoint may do o with attempt a; no more than MaxFaults requests are
\* failed (of each endpoint, when demonstrateParallelCallbacks runs alone;
\* given no answer, or 200 with a page that is not JSON, when a whole
\* dashboard runs).  In
\* the sequential demonstrations the first run writes the script, and a later
\* run is given what the script says: a request the first run did not make
\* stays unanswered.
Scripted(a, o) ==
  IF demo = "sequential" /\ dash.obs # <<>>
  THEN \E x \in ScriptFor(a) : x.o = o
  ELSE IF demo = "outage"
  THEN IF InOutage(a) THEN o = NoAnswer(TRUE) ELSE ~IsFault(o)
  ELSE IF demo = "dashboard"
  THEN \/ GoodAnswer(o)
       \/ /\ o \in {NoAnswer(TRUE), Answer(<<200, "<html>">>)}
          /\ Cardinality(Troubled) < MaxFaults
  ELSE IsFault(o) =>
         IF demo = "parallel"
         THEN Cardinality({i \in Faulted : attempts[i].url = attempts[a].url}) < MaxFaults
         ELSE Cardinality(Faulted) < MaxFaults

\* the local state once the endpoint did o with attempt a
Recorded(a, o) ==
  IF demo = "sequential"
  THEN [dash EXCEPT !.script = @ \cup {[url |-> attempts[a].url, k |-> Ordinal(a), o |-> o]}]
  ELSE dash

\* nothing is in flight and no timer is pending
Quiet == InFlight = {} /\ Destroyed = {} /\ timers = {} /\ dtimers = {}

\* what a run did: the URLs of its HTTP attempts, in order, and its reports
Observation ==
  [urls |-> [i \in 1..(Len(attempts) - dash.base) |-> attempts[dash.base + i].url],
   reports |-> dash.reports]

(* ------------------------------------------------------------------ *)
(* The concurrent-all demonstrations                                  *)
(* ------------------------------------------------------------------ *)
\* the local state of demonstratePromiseAll / demonstrateParallelAsync: the
\* state of the promise of Promise.all and, once settled, when it settled
All(style) ==
  [style |-> style, phase |-> "pending", result |-> Undefined, error |-> NoError,
   at |-> Undef, reports |-> <<>>]

\* (a variant that is fulfilled by the first fetch to succeed)
AllOnFetchFirst(e, f, r, t) ==
  IF e.dash.phase # "pending" THEN e
  ELSE IF ~r.ok
       THEN Report([e EXCEPT !.dash.phase = "rejected", !.dash.error = r.error,
                             !.dash.at = t], "failure")
       ELSE Report([e EXCEPT !.dash.phase = "fulfilled", !.dash.result = <<r.value>>,
                             !.dash.at = t], "success")

\* Promise.all([fetchWeather(), fetchNews()]) and its continuations: rejected
\* by the first rejection, fulfilled once both fetches are
AllOnFetch(e, f, r, t) ==
  IF e.dash.phase # "pending" THEN e
  ELSE IF ~r.ok
       THEN Report([e EXCEPT !.dash.phase = "rejected",
                             !.dash.error = IF e.dash.style = "promise"
                                            THEN Wrap("Parallel execution failed", r.error)
                                            ELSE r.error,
                             !.dash.at = t], "failure")
       ELSE IF \A g \in Fetches \ {f} : fetches[g].state = "fulfilled"
            THEN Report([e EXCEPT !.dash.phase = "fulfilled",
                                  !.dash.result =
                                     [g \in Fetches |->
                                        IF g = f THEN r.value ELSE fetches[g].value],
                                  !.dash.at = t], "success")
            ELSE e

\* the local state of demonstrateParallelCallbacks
ParallelCallbacks ==
  [style |-> "callback", weatherResult |-> Undefined, newsResult |-> Undefined,
   completedRequests |-> 0, hasError |-> FALSE, at |-> Undef, reports |-> <<>>]

\* checkCompletion(): on the second count without an error it logs 'Both
\* requests completed in parallel!' and, if both results are there, displays
\* the dashboard
CheckCompletion(e, t) ==
  LET e1 == [e EXCEPT !.dash.completedRequests = @ + 1] IN
  IF e1.dash.completedRequests = 2 /\ ~e1.dash.hasError
  THEN LET e2 == Report([e1 EXCEPT !.dash.at = t], "completed") IN
       IF e2.dash.weatherResult # Undefined /\ e2.dash.newsResult # Undefined
       THEN Report(e2, "success")
       ELSE e2
  ELSE e1

\* demonstrateParallelCallbacks: the callbacks given to fetchWeather and fetchNews
ParallelCallbacksOnFetch(e, f, r, t) ==
  IF ~r.ok THEN Report([e EXCEPT !.dash.hasError = TRUE], "failure")
  ELSE IF fetches[f].op.kind = "weather"
       THEN CheckCompletion([e EXCEPT !.dash.weatherResult = r.value], t)
       ELSE CheckCompletion([e EXCEPT !.dash.newsResult = r.value], t)

(* ------------------------------------------------------------------ *)
(* PromiseDashboard.demonstratePromiseAllSettled                      *)
(* ------------------------------------------------------------------ *)
\* the local state of demonstratePromiseAllSettled: the state of the promise of
\* Promise.allSettled and, once fulfilled, its results and when it settled
AllSettled ==
  [style |-> "promise", phase |-> "pending", results |-> <<>>, at |-> Undef]

\* the entry of Promise.allSettled for the settled promise of fetch f
SettledResult(f) == [status |-> f.state, value |-> f.value, reason |-> f.error]

\* (a variant that is rejected by the first rejection, as Promise.all is)
AllSettledOnFetchFailFast(e, f, r, t) ==
  IF e.dash.phase # "pending" THEN e
  ELSE IF ~r.ok THEN [e EXCEPT !.dash.phase = "rejected", !.dash.at = t]
  ELSE IF \E g \in Fetches \ {f} : fetches[g].state = "pending" THEN e
  ELSE [e EXCEPT !.dash.phase = "fulfilled", !.dash.at = t,
                 !.dash.results =
                    [g \in Fetches |->
                       SettledResult(IF g = f THEN Settle(fetches[f], r, t)
                                     ELSE fetches[g])]]

\* Promise.allSettled([successPromise, failPromise, anotherSuccessPromise]):
\* fulfilled, once every promise has settled, with one entry per promise
AllSettledOnFetch(e, f, r, t) ==
  IF \E g \in Fetches \ {f} : fetches[g].state = "pending" THEN e
  ELSE [e EXCEPT !.dash.phase = "fulfilled", !.dash.at = t,
                 !.dash.results =
                    [g \in Fetches |->
                       SettledResult(IF g = f THEN Settle(fetches[f], r, t)
                                     ELSE fetches[g])]]

(* ------------------------------------------------------------------ *)
(* AsyncAwaitDashboard.demonstrateConcurrentAsync                     *)
(* ------------------------------------------------------------------ *)
\* getFallbackWeatherData() / getFallbackNewsData()
FallbackWeatherData == JsVal("WeatherData", "Fallback Data")
FallbackNewsData == JsVal("object", "{\"posts\":[{\"id\":1,\"title\":\"Fallback News Article\"}]}")

\* the local state of demonstrateConcurrentAsync: what weatherPromise and
\* newsPromise were fulfilled with, and what the function returned
ConcurrentAsync ==
  [style |-> "async", phase |-> "pending", weatherData |-> Undefined,
   newsData |-> Undefined, at |-> Undef]

\* (a variant without the .catch of weatherPromise and newsPromise: the
\* rejection reaches the catch of the function, which returns null)
ConcurrentAsyncOnFetchNoCatch(e, f, r, t) ==
  IF e.dash.phase # "pending" THEN e
  ELSE IF ~r.ok THEN [e EXCEPT !.dash.phase = "returned null", !.dash.at = t]
  ELSE LET e1 == IF fetches[f].op.kind = "weather"
                 THEN [e EXCEPT !.dash.weatherData = r.value]
                 ELSE [e EXCEPT !.dash.newsData = r.value]
       IN IF \E g \in Fetches \ {f} : fetches[g].state = "pending" THEN e1
          ELSE [e1 EXCEPT !.dash.phase = "returned", !.dash.at = t]

\* fetchWeather() or fetchNews() settled: its .catch gives the fallback for a
\* rejection, and `await Promise.all([weatherPromise, newsPromise])` resumes
\* once both are fulfilled
ConcurrentAsyncOnFetch(e, f, r, t) ==
  LET e1 == IF fetches[f].op.kind = "weather"
            THEN [e EXCEPT !.dash.weatherData =
                              IF r.ok THEN r.value ELSE FallbackWeatherData]
            ELSE [e EXCEPT !.dash.newsData =
                              IF r.ok THEN r.value ELSE FallbackNewsData]
  IN IF \E g \in Fetches \ {f} : fetches[g].state = "pending" THEN e1
     ELSE [e1 EXCEPT !.dash.phase = "returned", !.dash.at = t]

(* ------------------------------------------------------------------ *)
(* PromiseDashboard.demonstratePromiseRace                            *)
(* ------------------------------------------------------------------ *)
\* the delays of fastPromise and slowPromise
FAST_DELAY == 800
SLOW_DELAY == 2000

\* a promise of the race: not settled yet / fulfilled with a message at time t /
\* rejected with an error at time t
RacePending == [state |-> "pending", value |-> Undefined, error |-> NoError, at |-> Undef]
RaceFulfilled(message, t) ==
  [state |-> "fulfilled", value |-> JsVal("string", message), error |-> NoError, at |-> t]
RaceRejected(error, t) ==
  [state |-> "rejected", value |-> Undefined, error |-> error, at |-> t]

\* the local state of demonstratePromiseRace: fastPromise, mediumPromise and
\* slowPromise, and the promise of Promise.race
Race ==
  [style |-> "promise", fast |-> RacePending, medium |-> RacePending,
   slow |-> RacePending, race |-> RacePending]

\* (a variant in which every promise that settles settles the race again)
RaceSettleLast(e, p) == [e EXCEPT !.dash.race = p]

\* Promise.race([fastPromise, mediumPromise, slowPromise]) when one of the
\* three settles as p: the race settles as the first of them does
RaceSettle(e, p) ==
  IF e.dash.race.state = "pending" THEN [e EXCEPT !.dash.race = p] ELSE e

\* the promise of makeRequestPromise(NEWS_API_URL) settled: mediumPromise is
\* fulfilled with its message, or rejected with the error of the request
RaceOnFetch(e, f, r, t) ==
  LET p == IF r.ok THEN RaceFulfilled("News API response completed", t)
           ELSE RaceRejected(r.error, t)
  IN RaceSettle([e EXCEPT !.dash.medium = p], p)

\* the timer of fastPromise or of slowPromise fired
RaceOnTimer(e, tm, t) ==
  IF tm.tag = "fast"
  THEN LET p == RaceFulfilled("Fast response completed", t)
       IN RaceSettle([e EXCEPT !.dash.fast = p], p)
  ELSE LET p == RaceFulfilled("Slow response completed", t)
       IN RaceSettle([e EXCEPT !.dash.slow = p], p)

(* ------------------------------------------------------------------ *)
(* AsyncAwaitDashboard.demonstrateAsyncWithTimeout                    *)
(* ------------------------------------------------------------------ *)
\* const timeoutMs = 5000
TIMEOUT_MS == 5000

\* (a variant in which the timer rejects whatever the state of the race)
AsyncWithTimeoutOnTimerLate(e, tm, t) ==
  Report([e EXCEPT !.dash.phase = "rejected",
                   !.dash.error = Err("Operation timed out", TIMEOUT_MS, 0),
                   !.dash.at = t], "failure")

\* The local state of demonstrateAsyncWithTimeout is that of the promise of
\* Promise.race([Promise.all([weatherPromise, newsPromise]), timeoutPromise]):
\* AllOnFetch settles it as Promise.all settles, and the timer rejects it if it
\* is still pending (the function then returns null).
AsyncWithTimeoutOnTimer(e, tm, t) ==
  IF e.dash.phase # "pending" THEN e
  ELSE Report([e EXCEPT !.dash.phase = "rejected",
                        !.dash.error = Err("Operation timed out", TIMEOUT_MS, 0),
                        !.dash.at = t], "failure")

(* ------------------------------------------------------------------ *)
(* AsyncAwaitDashboard.demonstrateAsyncGenerator                      *)
(* ------------------------------------------------------------------ *)
\* `await this.delay(300)` of processAsyncGenerator
STREAM_DELAY == 300

\* the local state of processAsyncGenerator and of the generator it consumes:
\* updates: the milestones logged so far, each with the time it was yielded;
\* phase: "consuming" (the delay after an update), "fetching" (the generator
\* awaits a fetch), "done" (the loop has ended), "threw" (its catch has run)
Stream == [style |-> "async", phase |-> "consuming", updates |-> <<>>]

\* the generator yields a milestone: processAsyncGenerator logs it and awaits
\* its delay
Yield(e, milestone, t) ==
  SetTimer([e EXCEPT !.dash.phase = "consuming",
                     !.dash.updates = Append(@, [text |-> milestone, at |-> t])],
           "next", STREAM_DELAY, t)

\* (a variant whose generator has no catch: the failure of a fetch is thrown to
\* processAsyncGenerator)
StreamOnFetchThrows(e, f, r, t) ==
  IF ~r.ok THEN [e EXCEPT !.dash.phase = "threw"]
  ELSE IF fetches[f].op.kind = "weather" THEN Yield(e, "Weather data received", t)
  ELSE Yield(e, "News data received", t)

\* `await this.fetchWeather()` or `await this.fetchNews()` of the generator
\* returned or threw
StreamOnFetch(e, f, r, t) ==
  IF ~r.ok THEN Yield(e, "Error occurred", t)
  ELSE IF fetches[f].op.kind = "weather" THEN Yield(e, "Weather data received", t)
  ELSE Yield(e, "News data received", t)

\* the delay of processAsyncGenerator is over: the loop asks the generator for
\* its next update, and the generator runs on from its last yield
StreamOnTimer(e, tm, t) ==
  LET last == e.dash.updates[Len(e.dash.updates)].text IN
  CASE last = "Starting data fetch operations" ->
         Yield(e, "Initiating weather API request", t)
    [] last = "Initiating weather API request" ->
         [e EXCEPT !.dash.phase = "fetching", !.start = <<Op("weather", "async")>>]
    [] last = "Weather data received" ->
         Yield(e, "Initiating news API request", t)
    [] last = "Initiating news API request" ->
         [e EXCEPT !.dash.phase = "fetching", !.start = <<Op("news", "async")>>]
    [] last = "News data received" ->
         Yield(e, "All operations completed successfully", t)
    [] OTHER -> [e EXCEPT !.dash.phase = "done"]

(* ------------------------------------------------------------------ *)
(* CallbackDashboard.run under DashboardRunner.runAllVersions         *)
(* ------------------------------------------------------------------ *)
\* the delay of the footer in CallbackDashboard.run, and the delay
\* runCallbackVersion awaits after CallbackDashboard.run() returned
FOOTER_DELAY == 8000
RUNNER_DELAY == 10000

\* The local state of runAllVersions while it runs the callback version: that
\* of demonstrateCallbackHell (phase, weather, news, reports); parallel: one
\* local state per call of demonstrateParallelCallbacks, with the number of the
\* first of its two fetches; footer: when the footer was logged; prompt:
\* whether "Press Enter" is on the screen; promiseRunAt: when
\* PromiseDashboard.run() was called.
CallbackRun ==
  [style |-> "callback", phase |-> "weather", weather |-> Undefined, news |-> Undefined,
   reports |-> <<>>, parallel |-> <<>>, footer |-> Undef, prompt |-> FALSE,
   promiseRunAt |-> Undef]

\* the calls of demonstrateParallelCallbacks that fetch f belongs to
ParallelOf(e, f) ==
  {i \in 1..Len(e.dash.parallel) :
     f \in {e.dash.parallel[i].first, e.dash.parallel[i].first + 1}}

\* the callback of a fetch of the callback version is invoked: that of
\* demonstrateParallelCallbacks, or that of demonstrateCallbackHell
RunOnFetch(e, f, r, t) ==
  IF ParallelOf(e, f) # {}
  THEN LET i == CHOOSE j \in ParallelOf(e, f) : TRUE
           sub == ParallelCallbacksOnFetch([e EXCEPT !.dash = e.dash.parallel[i]], f, r, t)
       IN [e EXCEPT !.dash.parallel[i] = sub.dash]
  ELSE CallbackHellOnFetch(e, f, r, t)

\* a timer fires: the footer of CallbackDashboard.run, the delay of
\* runCallbackVersion, or a timer of demonstrateCallbackHell, the last of
\* which displays the dashboard and calls demonstrateParallelCallbacks()
RunOnTimer(e, tm, t) ==
  CASE tm.tag = "footer" -> [e EXCEPT !.dash.footer = t]
    [] tm.tag = "runner delay" -> [e EXCEPT !.dash.prompt = TRUE]
    [] tm.tag = "display" ->
         [Report([e EXCEPT !.dash.phase = "done"], "success")
            EXCEPT !.dash.parallel =
                      Append(@, [first |-> Len(fetches) + 1] @@ ParallelCallbacks),
                   !.start = <<Op("weather", "callback"), Op("news", "callback")>>]
    [] OTHER -> CallbackHellOnTimer(e, tm, t)

(* ------------------------------------------------------------------ *)
(* PromiseDashboard.run and AsyncAwaitDashboard.run                   *)
(* ------------------------------------------------------------------ *)
\* the demonstrations run() awaits inside its try, in order
Demonstrations(version) ==
  IF version = "promise"
  THEN <<"chaining", "all", "race", "settled">>
  ELSE <<"sequential", "all", "concurrent", "timeout", "stream", "retry">>

\* The state of run(): stage: the number of the demonstration it awaits, one
\* more than their number once its finally has run; log: the demonstrations it
\* called, "caught" for its catch and "footer" for its finally.  The local
\* state of the demonstration it awaits is kept beside these fields.
RunState(version, stage, log) == [version |-> version, stage |-> stage, log |-> log]

RunIsOver(d) == d.stage > Len(Demonstrations(d.version))

\* the demonstration run() awaits
Awaits(d) == Demonstrations(d.version)[d.stage]

\* the local state a demonstration starts in
DemonstrationState(version, name) ==
  CASE name \in {"chaining", "sequential"} -> Sequential(version, {}, <<>>, 0)
    [] name = "all"        -> All(version)
    [] name = "race"       -> Race
    [] name = "settled"    -> AllSettled
    [] name = "concurrent" -> ConcurrentAsync
    [] name = "timeout"    -> All("async")
    [] name = "stream"     -> Stream
    [] name = "retry"      ->
         FetchWithRetry(Op("news", "async"), RETRY_DEMO_MAX_RETRIES, RETRY_DEMO_DELAY)

\* run() calls its demonstration number `stage` at time t
CallDemonstration(e, version, stage, t) ==
  LET name == Demonstrations(version)[stage]
      both == <<Op("weather", version), Op("news", version)>>
      e0 == [e EXCEPT !.dash = RunState(version, stage, Append(e.dash.log, name))
                                 @@ DemonstrationState(version, name)]
  IN CASE name \in {"chaining", "sequential"} ->
            [e0 EXCEPT !.start = <<Op("weather", version)>>]
       [] name \in {"all", "concurrent"} -> [e0 EXCEPT !.start = both]
       [] name = "race" ->
            [SetTimer(SetTimer(e0, "fast", FAST_DELAY, t), "slow", SLOW_DELAY, t)
               EXCEPT !.start = <<Op("request", "promise")>>]
       [] name = "settled" ->
            [e0 EXCEPT !.start = <<Op("weather", "promise"), Op("invalid", "promise"),
                                   Op("news", "promise")>>]
       [] name = "timeout" ->
            [SetTimer(e0, "timeout", TIMEOUT_MS, t) EXCEPT !.start = both]
       [] name = "stream" -> Yield(e0, "Starting data fetch operations", t)
       [] name = "retry" -> [e0 EXCEPT !.start = <<Op("news", "async")>>]

\* how the promise of the demonstration run() awaits has settled
Outcome(d) ==
  LET name == Awaits(d) IN
  CASE name \in {"chaining", "sequential"} ->
         IF d.phase = "done" THEN "fulfilled"
         ELSE IF d.phase = "failed" THEN "rejected" ELSE "pending"
    [] name \in {"all", "settled"} -> d.phase
    [] name = "race" -> d.race.state
    [] name \in {"concurrent", "timeout"} ->
         IF d.phase = "pending" THEN "pending" ELSE "fulfilled"
    [] name = "stream" ->
         IF d.phase \in {"done", "threw"} THEN "fulfilled" ELSE "pending"
    [] name = "retry" ->
         IF d.phase \in {"returned", "threw"} THEN "fulfilled" ELSE "pending"

\* run() gives the result of the demonstration to displayDashboard, and the
\* news in it were fetched: posts whose fields displayDashboard reads unchecked
Displays(d) ==
  LET name == Awaits(d) IN
  CASE name \in {"chaining", "sequential", "all"} -> d.phase \in {"done", "fulfilled"}
    [] name = "concurrent" -> d.newsData # FallbackNewsData
    [] name = "timeout" -> d.phase = "fulfilled"
    [] OTHER -> FALSE

\* a fetch of the demonstration run() awaits settled
DashboardOnFetch(e, f, r, t) ==
  IF RunIsOver(e.dash) THEN e
  ELSE LET name == Awaits(e.dash) IN
       CASE name \in {"chaining", "sequential"} -> ChainOnFetch(e, f, r, t)
         [] name \in {"all", "timeout"} -> AllOnFetch(e, f, r, t)
         [] name = "race" -> RaceOnFetch(e, f, r, t)
         [] name = "settled" -> AllSettledOnFetch(e, f, r, t)
         [] name = "concurrent" -> ConcurrentAsyncOnFetch(e, f, r, t)
         [] name = "stream" -> StreamOnFetch(e, f, r, t)
         [] name = "retry" -> FetchWithRetryOnSettle(e, r, t)

\* a timer fires: it is given to the demonstration that set it if run() still
\* awaits that demonstration
DashboardOnTimer(e, tm, t) ==
  IF RunIsOver(e.dash) THEN e
  ELSE LET name == Awaits(e.dash) IN
       CASE tm.tag = "process weather" /\ name \in {"chaining", "sequential"} ->
              ChainOnTimer(e, tm, t)
         [] tm.tag \in {"fast", "slow"} /\ name = "race" -> RaceOnTimer(e, tm, t)
         [] tm.tag = "timeout" /\ name = "timeout" -> AsyncWithTimeoutOnTimer(e, tm, t)
         [] tm.tag = "next" /\ name = "stream" -> StreamOnTimer(e, tm, t)
         [] tm.tag = "retry" /\ name = "retry" -> FetchWithRetryOnDelay(e, t)
         [] OTHER -> e

(* ------------------------------------------------------------------ *)
(* The steps of a demonstration                                       *)
(* ------------------------------------------------------------------ *)
\* the continuation that the delivery of result r to fetch f runs
OnFetch(e, f, r, t) ==
  CASE demo \in {"retry", "outage"} -> FetchWithRetryOnSettle(e, r, t)
    [] demo = "sequential" /\ e.dash.style = "callback" -> CallbackHellOnFetch(e, f, r, t)
    [] demo = "sequential" /\ e.dash.style # "callback" -> ChainOnFetch(e, f, r, t)
    [] demo = "all" /\ e.dash.style = "callback" -> ParallelCallbacksOnFetch(e, f, r, t)
    [] demo = "all" /\ e.dash.style # "callback" -> AllOnFetch(e, f, r, t)
    [] demo = "parallel" -> ParallelCallbacksOnFetch(e, f, r, t)
    [] demo = "settled" -> AllSettledOnFetch(e, f, r, t)
    [] demo = "concurrent" -> ConcurrentAsyncOnFetch(e, f, r, t)
    [] demo = "race" -> RaceOnFetch(e, f, r, t)
    [] demo = "timeout" -> AllOnFetch(e, f, r, t)
    [] demo = "stream" -> StreamOnFetch(e, f, r, t)
    [] demo = "run" -> RunOnFetch(e, f, r, t)
    [] demo = "dashboard" -> DashboardOnFetch(e, f, r, t)
    [] OTHER          -> e

\* the continuation that timer tm runs
OnTimer(e, tm, t) ==
  CASE demo \in {"retry", "outage"} -> FetchWithRetryOnDelay(e, t)
    [] demo = "sequential" /\ e.dash.style = "callback" -> CallbackHellOnTimer(e, tm, t)
    [] demo = "sequential" /\ e.dash.style # "callback" -> ChainOnTimer(e, tm, t)
    [] demo = "race" -> RaceOnTimer(e, tm, t)
    [] demo = "timeout" -> AsyncWithTimeoutOnTimer(e, tm, t)
    [] demo = "stream" -> StreamOnTimer(e, tm, t)
    [] demo = "run" -> RunOnTimer(e, tm, t)
    [] demo = "dashboard" -> DashboardOnTimer(e, tm, t)
    [] OTHER          -> e

\* A handler of HttpClient ran, the local state being d.  If it invoked the
\* callback of the call, the result is delivered to the fetch: a callback-style
\* fetch passes every invocation on, a promise settles once and ignores the rest.
\* (A fetch of a demonstration that run() no longer awaits is not kept: its
\* promise settles unobserved.)
Deliver(d) ==
  IF \/ Len(calls') = Len(calls)
     \/ \A f \in Fetches : fetches[f].call # CallOf(calls'[Len(calls')].by)
  THEN dash' = d /\ UNCHANGED <<fetches, dtimers>>
  ELSE LET k == calls'[Len(calls')]
           f == FetchOfCall(CallOf(k.by))
           r == FetchResult(fetches[f].op, k.err, k.data)
       IN IF fetches[f].op.style # "callback" /\ fetches[f].state # "pending"
          THEN dash' = d /\ UNCHANGED <<fetches, dtimers>>
          ELSE LET e == OnFetch([DCur EXCEPT !.dash = d], f, r, now') IN
               /\ fetches' = [fetches EXCEPT ![f] = Settle(@, r, now')]
               /\ dtimers' = e.dtimers
               /\ dash' = e.dash

\* what the endpoints answer in the demonstrations
DemoResponses(url) ==
  CASE url = WEATHER_API_URL ->
         {<<200, WeatherJson>>, <<200, "{}">>, <<200, "<html>">>, <<500, "<html>">>}
    [] url = NEWS_API_URL ->
         {<<200, NewsJson>>, <<200, EmptyNewsJson>>, <<200, "{}">>,
          <<200, "<html>">>, <<500, "<html>">>}
    [] OTHER -> {}

\* The events of HttpClient while a demonstration runs: the endpoints answer, or
\* an attempt times out.
DemoHttp ==
  \/ \E a \in InFlight, lat \in Latencies :
       \E r \in DemoResponses(attempts[a].url) :
         /\ Scripted(a, Answer(r))
         /\ ResponseEnd(a, r[1], r[2], FALSE, lat)
         /\ Deliver(Recorded(a, Answer(r))) /\ UNCHANGED demo
  \/ \E a \in InFlight, hangup \in BOOLEAN :
       /\ Scripted(a, NoAnswer(hangup))
       /\ RequestTimeout(a, hangup)
       /\ Deliver(Recorded(a, NoAnswer(hangup))) /\ UNCHANGED demo
  \/ \E a \in Destroyed : HangUpError(a) /\ Deliver(dash) /\ UNCHANGED demo
  \/ \E tm \in timers : RetryTimerFires(tm) /\ UNCHANGED dvars

\* a timer of the demonstration fires
DemoTimerFires(tm) ==
  /\ pc = "called"
  /\ tm \in dtimers
  /\ MayHappenAt(tm.due)
  /\ now' = tm.due
  /\ LET e == OnTimer([DCur EXCEPT !.dtimers = @ \ {tm}], tm, tm.due) IN
       /\ dash' = e.dash
       /\ dtimers' = e.dtimers
       /\ Launch(e.start, tm.due)
  /\ UNCHANGED <<pc, mode, opts, timers, calls, promise, demo>>

\* the demonstration `name` is called: its local state is d, and it starts ops
Begin(name, d, ops) ==
  /\ pc = "idle"
  /\ demo = "none"
  /\ pc' = "called"
  /\ demo' = name
  /\ dash' = d
  /\ Launch(ops, now)
  /\ UNCHANGED <<mode, opts, timers, calls, promise, now, dtimers>>

\* run(): fetchWithRetry(() => this.fetchNews(), 2, 500)
RetryDemo ==
  Begin("retry",
        FetchWithRetry(Op("news", "async"), RETRY_DEMO_MAX_RETRIES, RETRY_DEMO_DELAY),
        <<Op("news", "async")>>)

RetryDemoNext ==
  \/ RetryDemo
  \/ DemoHttp
  \/ \E tm \in dtimers : DemoTimerFires(tm)

SpecRetryDemo == Init /\ [][RetryDemoNext]_vars

\* run(): fetchWithRetry(() => this.fetchNews(), 2, 500), the news endpoint
\* going out after its first answer
RetryDemoInOutage ==
  Begin("outage",
        FetchWithRetry(Op("news", "async"), RETRY_DEMO_MAX_RETRIES, RETRY_DEMO_DELAY),
        <<Op("news", "async")>>)

OutageNext ==
  \/ RetryDemoInOutage
  \/ DemoHttp
  \/ \E tm \in dtimers : DemoTimerFires(tm)

SpecOutage == Init /\ [][OutageNext]_vars

\* fetchWithRetry(() => this.fetchNews(), maxRetries, 500) is called
FetchWithRetryCall ==
  \E maxRetries \in (-1)..(MaxRetries + 1) :
    Begin("retry",
          FetchWithRetry(Op("news", "async"), maxRetries, RETRY_DEMO_DELAY),
          FirstInvocation(Op("news", "async"), maxRetries))

FetchWithRetryNext ==
  \/ FetchWithRetryCall
  \/ DemoHttp
  \/ \E tm \in dtimers : DemoTimerFires(tm)

SpecFetchWithRetry == Init /\ [][FetchWithRetryNext]_vars

\* the styles of the sequential demonstrations, in the order they are run here
Styles == <<"promise", "async", "callback">>

\* demonstrateCallbackHell() is called
SequentialDemo ==
  Begin("sequential", Sequential(Styles[1], {}, <<>>, 0), <<Op("weather", Styles[1])>>)

\* the run is over: the sequential demonstration of the next style is called
NextSequentialDemo ==
  /\ demo = "sequential"
  /\ Quiet
  /\ Len(dash.obs) + 1 < Len(Styles)
  /\ LET obs == Append(dash.obs, Observation)
         style == Styles[Len(obs) + 1]
     IN /\ dash' = Sequential(style, dash.script, obs, Len(attempts))
        /\ Launch(<<Op("weather", style)>>, now)
  /\ UNCHANGED <<pc, mode, opts, timers, calls, promise, now, demo, dtimers>>

SequentialNext ==
  \/ SequentialDemo
  \/ NextSequentialDemo
  \/ DemoHttp
  \/ \E tm \in dtimers : DemoTimerFires(tm)

SpecSequential == Init /\ [][SequentialNext]_vars

\* demonstratePromiseAll() is called
PromiseAllDemo ==
  Begin("all", All("promise"), <<Op("weather", "promise"), Op("news", "promise")>>)

\* demonstrateParallelAsync() is called
ParallelAsyncDemo ==
  Begin("all", All("async"), <<Op("weather", "async"), Op("news", "async")>>)

\* demonstrateParallelCallbacks() is called
ParallelCallbacksDemo ==
  Begin("all", ParallelCallbacks, <<Op("weather", "callback"), Op("news", "callback")>>)

AllNext ==
  \/ PromiseAllDemo
  \/ ParallelAsyncDemo
  \/ ParallelCallbacksDemo
  \/ DemoHttp

SpecAll == Init /\ [][AllNext]_vars

\* demonstrateParallelCallbacks() is called while either endpoint may fail
ParallelCallbacksAlone ==
  Begin("parallel", ParallelCallbacks,
        <<Op("weather", "callback"), Op("news", "callback")>>)

ParallelNext ==
  \/ ParallelCallbacksAlone
  \/ DemoHttp

SpecParallel == Init /\ [][ParallelNext]_vars

\* the name https://invalid-url.example.com does not resolve: the request fails
InvalidUrlFails ==
  \E a \in InFlight, lat \in Latencies :
    /\ attempts[a].url = INVALID_URL
    /\ RequestError(a, lat)
    /\ Deliver(dash) /\ UNCHANGED demo

\* demonstratePromiseAllSettled() is called
AllSettledDemo ==
  Begin("settled", AllSettled,
        <<Op("weather", "promise"), Op("invalid", "promise"), Op("news", "promise")>>)

\* demonstrateConcurrentAsync() is called
ConcurrentAsyncDemo ==
  Begin("concurrent", ConcurrentAsync, <<Op("weather", "async"), Op("news", "async")>>)

ConcurrentAsyncNext ==
  \/ ConcurrentAsyncDemo
  \/ DemoHttp

SpecConcurrentAsync == Init /\ [][ConcurrentAsyncNext]_vars

\* demonstratePromiseRace() is called: the two timers are set and the request
\* of the news is made
RaceDemo ==
  /\ pc = "idle"
  /\ demo = "none"
  /\ pc' = "called"
  /\ demo' = "race"
  /\ LET e == SetTimer(SetTimer([DCur EXCEPT !.dash = Race], "fast", FAST_DELAY, now),
                       "slow", SLOW_DELAY, now)
     IN dash' = e.dash /\ dtimers' = e.dtimers
  /\ Launch(<<Op("request", "promise")>>, now)
  /\ UNCHANGED <<mode, opts, timers, calls, promise, now>>

\* PromiseDashboard: one of demonstratePromiseRace and
\* demonstratePromiseAllSettled is called and runs to its end
PromiseDemosNext ==
  \/ RaceDemo
  \/ AllSettledDemo
  \/ DemoHttp
  \/ InvalidUrlFails
  \/ \E tm \in dtimers : DemoTimerFires(tm)

SpecPromiseDemos == Init /\ [][PromiseDemosNext]_vars

\* demonstrateAsyncWithTimeout() is called: both fetches are started and the
\* timer of timeoutPromise is set
AsyncWithTimeoutDemo ==
  /\ pc = "idle"
  /\ demo = "none"
  /\ pc' = "called"
  /\ demo' = "timeout"
  /\ LET e == SetTimer([DCur EXCEPT !.dash = All("async")], "timeout", TIMEOUT_MS, now)
     IN dash' = e.dash /\ dtimers' = e.dtimers
  /\ Launch(<<Op("weather", "async"), Op("news", "async")>>, now)
  /\ UNCHANGED <<mode, opts, timers, calls, promise, now>>

\* the demonstrations in which an outer promise can settle while a fetch is
\* still in progress
OuterNext ==
  \/ RaceDemo
  \/ PromiseAllDemo
  \/ AsyncWithTimeoutDemo
  \/ DemoHttp
  \/ \E tm \in dtimers : DemoTimerFires(tm)

SpecOuter == Init /\ [][OuterNext]_vars

\* processAsyncGenerator() is called: the generator runs to its first yield
StreamDemo ==
  /\ pc = "idle"
  /\ demo = "none"
  /\ pc' = "called"
  /\ demo' = "stream"
  /\ LET e == Yield([DCur EXCEPT !.dash = Stream], "Starting data fetch operations", now)
     IN dash' = e.dash /\ dtimers' = e.dtimers
  /\ UNCHANGED <<mode, opts, attempts, timers, calls, promise, now, fetches>>

StreamNext ==
  \/ StreamDemo
  \/ DemoHttp
  \/ \E tm \in dtimers : DemoTimerFires(tm)

SpecStream == Init /\ [][StreamNext]_vars

\* runAllVersions() is called: CallbackDashboard.run() calls
\* demonstrateCallbackHell() and sets the timer of its footer, then
\* runCallbackVersion awaits its delay
RunAllVersions ==
  /\ pc = "idle"
  /\ demo = "none"
  /\ pc' = "called"
  /\ demo' = "run"
  /\ LET e == SetTimer(SetTimer([DCur EXCEPT !.dash = CallbackRun],
                                "footer", FOOTER_DELAY, now),
                       "runner delay", RUNNER_DELAY, now)
     IN dash' = e.dash /\ dtimers' = e.dtimers
  /\ Launch(<<Op("weather", "callback")>>, now)
  /\ UNCHANGED <<mode, opts, timers, calls, promise, now>>

\* the user presses Enter: runPromiseVersion calls PromiseDashboard.run(), whose
\* demonstratePromiseChaining calls fetchWeather()
UserInput ==
  /\ demo = "run"
  /\ dash.prompt
  /\ dash.promiseRunAt = Undef
  /\ dash' = [dash EXCEPT !.prompt = FALSE, !.promiseRunAt = now]
  /\ Launch(<<Op("weather", "promise")>>, now)
  /\ UNCHANGED <<pc, mode, opts, timers, calls, promise, now, demo, dtimers>>

\* The run is followed until the promise version has started.
CallbackVersionRuns == demo = "run" /\ dash.promiseRunAt = Undef

RunNext ==
  \/ RunAllVersions
  \/ UserInput
  \/ CallbackVersionRuns /\ DemoHttp
  \/ CallbackVersionRuns /\ \E tm \in dtimers : DemoTimerFires(tm)

SpecRun == Init /\ [][RunNext]_vars

\* the fetches ops are started at time t; the fetches of the demonstrations
\* that are over are no longer kept
StartOnly(ops, t) ==
  /\ attempts' = attempts \o
       [i \in 1..Len(ops) |->
          StartAttempt(UrlOf(ops[i]), OptTimeout(NoOptions), OptRetries(NoOptions), 0, t)]
  /\ fetches' = [i \in 1..Len(ops) |-> NewFetch(ops[i], Len(attempts) + i, t)]

\* PromiseDashboard.run() or AsyncAwaitDashboard.run() is called: it calls its
\* first demonstration
DashboardRun(version) ==
  /\ pc = "idle"
  /\ demo = "none"
  /\ pc' = "called"
  /\ demo' = "dashboard"
  /\ LET e == CallDemonstration([DCur EXCEPT !.dash = RunState(version, 0, <<>>)],
                                version, 1, now)
     IN dash' = e.dash /\ dtimers' = e.dtimers /\ StartOnly(e.start, now)
  /\ UNCHANGED <<mode, opts, timers, calls, promise, now>>

\* the promise run() awaits has settled: run() resumes before any other event
Resumable == demo = "dashboard" /\ ~RunIsOver(dash) /\ Outcome(dash) # "pending"

\* (a variant without the try of run(): a failure is logged by the catch, and
\* the demonstrations that follow are called all the same)
RunResumesAfterFailure ==
  /\ Resumable
  /\ LET failed == Outcome(dash) = "rejected"
         last == Len(Demonstrations(dash.version))
         log == dash.log \o (IF failed THEN <<"caught">> ELSE <<>>)
     IN IF dash.stage = last
        THEN /\ dash' = [dash EXCEPT !.stage = last + 1, !.log = log \o <<"footer">>]
             /\ UNCHANGED <<attempts, fetches, dtimers>>
        ELSE LET e == CallDemonstration([DCur EXCEPT !.dash.log = log],
                                        dash.version, dash.stage + 1, now)
             IN dash' = e.dash /\ dtimers' = e.dtimers /\ StartOnly(e.start, now)
  /\ UNCHANGED <<pc, mode, opts, timers, calls, promise, now, demo>>

\* run() resumes from its await.  After a rejection, or if displayDashboard
\* throws (throws), its catch logs the failure and its finally the footer;
\* after the last demonstration its finally logs the footer; otherwise it
\* calls the next demonstration.
RunResumes ==
  /\ Resumable
  /\ \E throws \in BOOLEAN :
       /\ throws => Displays(dash)
       /\ LET failed == Outcome(dash) = "rejected" \/ throws
              last == Len(Demonstrations(dash.version))
          IN IF failed \/ dash.stage = last
             THEN /\ dash' = [dash EXCEPT
                                !.stage = last + 1,
                                !.log = @ \o (IF failed THEN <<"caught">> ELSE <<>>)
                                          \o <<"footer">>]
                  /\ UNCHANGED <<attempts, fetches, dtimers>>
             ELSE LET e == CallDemonstration(DCur, dash.version, dash.stage + 1, now)
                  IN dash' = e.dash /\ dtimers' = e.dtimers /\ StartOnly(e.start, now)
  /\ UNCHANGED <<pc, mode, opts, timers, calls, promise, now, demo>>

\* run() awaits a demonstration whose promise is pending
Awaiting == demo = "dashboard" /\ ~RunIsOver(dash) /\ Outcome(dash) = "pending"

\* run() is followed until its finally has run
DashboardNext ==
  \/ \E version \in {"promise", "async"} : DashboardRun(version)
  \/ RunResumes
  \/ Awaiting /\ DemoHttp
  \/ Awaiting /\ InvalidUrlFails
  \/ Awaiting /\ \E tm \in dtimers : DemoTimerFires(tm)

SpecDashboard == Init /\ [][DashboardNext]_vars

(* ------------------------------------------------------------------ *)
(* getWeatherDescription                                              *)
(* ------------------------------------------------------------------ *)
\* Temperatures are numbers with one decimal, counted in tenths of a degree.
Tenths(degrees) == degrees * 10
Temperatures == Tenths(-MaxTemperature)..Tenths(MaxTemperature)

\* a description: the words of the bucket, followed by a space and an emoji
\* (none in CallbackDashboard and PromiseDashboard)
Description(words, emoji) == [words |-> words, emoji |-> emoji]
NoDescription == Description("", "")

\* CallbackDashboard.getWeatherDescription
CallbackGetWeatherDescription(temperature) ==
  IF temperature < Tenths(0) THEN Description("Very Cold", "")
  ELSE IF temperature < Tenths(10) THEN Description("Cold", "")
  ELSE IF temperature < Tenths(20) THEN Description("Cool", "")
  ELSE IF temperature < Tenths(30) THEN Description("Warm", "")
  ELSE Description("Hot", "")

\* PromiseDashboard.getWeatherDescription
PromiseGetWeatherDescription(temperature) ==
  IF temperature < Tenths(0) THEN Description("Very Cold", "")
  ELSE IF temperature < Tenths(10) THEN Description("Cold", "")
  ELSE IF temperature < Tenths(20) THEN Description("Cool", "")
  ELSE IF temperature < Tenths(30) THEN Description("Warm", "")
  ELSE Description("Hot", "")

\* (a variant whose buckets include their upper boundary)
GetWeatherDescriptionUpTo(temperature) ==
  IF temperature <= Tenths(0) THEN Description("Very Cold", "snowflake")
  ELSE IF temperature <= Tenths(10) THEN Description("Cold", "cold face")
  ELSE IF temperature <= Tenths(20) THEN Description("Cool", "sun behind cloud")
  ELSE IF temperature <= Tenths(30) THEN Description("Warm", "sun")
  ELSE Description("Hot", "fire")

\* AsyncAwaitDashboard.getWeatherDescription
AsyncGetWeatherDescription(temperature) ==
  IF temperature < Tenths(0) THEN Description("Very Cold", "snowflake")
  ELSE IF temperature < Tenths(10) THEN Description("Cold", "cold face")
  ELSE IF temperature < Tenths(20) THEN Description("Cool", "sun behind cloud")
  ELSE IF temperature < Tenths(30) THEN Description("Warm", "sun")
  ELSE Description("Hot", "fire")

\* a temperature is given, and each dashboard describes it
InitDescribe ==
  /\ pc = "idle"
  /\ mode = "callback"
  /\ opts = NoOptions
  /\ attempts = <<>>
  /\ timers = {}
  /\ calls = <<>>
  /\ promise = NoPromise
  /\ now = 0
  /\ demo = "describe"
  /\ fetches = <<>>
  /\ dtimers = {}
  /\ \E t \in Temperatures :
       dash = [temperature |-> t, callback |-> NoDescription,
               promise |-> NoDescription, async |-> NoDescription]

DescribeCallback ==
  /\ demo = "describe"
  /\ dash.callback = NoDescription
  /\ dash' = [dash EXCEPT !.callback = CallbackGetWeatherDescription(dash.temperature)]
  /\ UNCHANGED <<pc, mode, opts, attempts, timers, calls, promise, now,
                 demo, fetches, dtimers>>

DescribePromise ==
  /\ demo = "describe"
  /\ dash.promise = NoDescription
  /\ dash' = [dash EXCEPT !.promise = PromiseGetWeatherDescription(dash.temperature)]
  /\ UNCHANGED <<pc, mode, opts, attempts, timers, calls, promise, now,
                 demo, fetches, dtimers>>

DescribeAsync ==
  /\ demo = "describe"
  /\ dash.async = NoDescription
  /\ dash' = [dash EXCEPT !.async = AsyncGetWeatherDescription(dash.temperature)]
  /\ UNCHANGED <<pc, mode, opts, attempts, timers, calls, promise, now,
                 demo, fetches, dtimers>>

DescribeNext ==
  \/ DescribeCallback
  \/ DescribePromise
  \/ DescribeAsync

SpecDescribe == InitDescribe /\ [][DescribeNext]_vars

(* ------------------------------------------------------------------ *)
(* Vocabulary of the properties                                       *)
(* ------------------------------------------------------------------ *)
Attempts == 1..Len(attempts)
Calls == 1..Len(calls)

\* the retry count the call was made with
Retries == OptRetries(opts)

\* the failures the retry loop recovers from
Transient == {"status", "transport", "timeout"}
\* the errors a handler delivers when no retries are left
ExhaustionKinds == {"status", "transport", "hangup", "timeout"}

\* nothing of the call is pending any more
Quiescent == pc = "called" /\ InFlight = {} /\ Destroyed = {} /\ timers = {}

\* the retries attempt a has caused: timers pending and attempts started
RetriesCausedBy(a) ==
  Cardinality({tm \in timers : tm.from = a})
    + Cardinality({b \in Attempts : attempts[b].parent = a})

\* attempt a and the attempts whose retries led to it
RECURSIVE Chain(_)
Chain(a) == IF a = 0 THEN {} ELSE {a} \cup Chain(attempts[a].parent)

(* ------------------------------------------------------------------ *)
(* C1  One call issues at most retries + 1 GET requests.              *)
(* ------------------------------------------------------------------ *)
\* C1: for every retries value N >= 0 and every sequence of per-attempt outcomes,
\* one call of makeRequest starts at most N + 1 attempts.
C1_AtMostRetriesPlusOneRequests ==
  pc = "called" => Len(attempts) <= Retries + 1

(* ------------------------------------------------------------------ *)
(* C2  An endpoint that always fails transiently.                     *)
(* ------------------------------------------------------------------ *)
AllAttemptsFailedTransiently ==
  \A a \in Attempts : attempts[a].result \in Transient

\* C2: when every attempt of a call has failed transiently and nothing is pending
\* any more, the call has made exactly retries + 1 attempts and has delivered a
\* failure (and no success) to the caller.
C2_AlwaysFailingMakesRetriesPlusOneAttempts ==
  (Quiescent /\ AllAttemptsFailedTransiently) =>
    /\ Len(attempts) = Retries + 1
    /\ Len(calls) >= 1
    /\ \A c \in Calls : calls[c].err # NoError

(* ------------------------------------------------------------------ *)
(* C3  Success on attempt K.                                          *)
(* ------------------------------------------------------------------ *)
\* attempts 1..K-1 failed transiently and attempt K got a 2xx with a parsable body
SucceededOnAttempt(K) ==
  /\ K \in Attempts
  /\ K <= Retries + 1
  /\ attempts[K].result = "success"
  /\ \A a \in 1..(K - 1) : attempts[a].result \in Transient

\* C3: if attempts 1..K-1 fail transiently and attempt K succeeds, the call makes
\* exactly K attempts, the parsed value is delivered as success by attempt K, and
\* no attempt is started (or scheduled) after the success is delivered.
C3_SuccessOnAttemptKMakesKAttempts ==
  \A K \in Attempts :
    SucceededOnAttempt(K) =>
      /\ Len(attempts) = K
      /\ timers = {}
      /\ \E c \in Calls :
           calls[c].by = K /\ calls[c].err = NoError /\ calls[c].data # Undefined

(* ------------------------------------------------------------------ *)
(* C4  A 2xx response with an unparsable body is not retried.         *)
(* ------------------------------------------------------------------ *)
\* C4: an attempt that got a 2xx response whose body is not valid JSON has
\* delivered a parse failure to the caller at the time of its 'end' event and has
\* caused no retry, whatever its retry budget; when it is the first attempt of the
\* call, the call makes exactly 1 attempt and nothing of it stays pending.
C4_ParseFailureIsNotRetried ==
  \A a \in Attempts :
    attempts[a].result = "parse" =>
      /\ \E c \in Calls :
           /\ calls[c].by = a
           /\ calls[c].err = Err("parse", 0, a)
           /\ calls[c].data = Undefined
           /\ calls[c].at = attempts[a].ended
      /\ RetriesCausedBy(a) = 0
      /\ a = 1 => (Len(attempts) = 1 /\ Len(calls) = 1 /\ Quiescent)

\* the first attempt got such a response while retries remained
C4_Witness ==
  /\ Len(attempts) >= 1
  /\ attempts[1].result = "parse"
  /\ attempts[1].retriesLeft > 0

(* ------------------------------------------------------------------ *)
(* C5  Attempts of one call are strictly sequential.                  *)
(* ------------------------------------------------------------------ *)
\* C5: at every moment at most one attempt of the call is in flight or scheduled,
\* an attempt starts only after the attempt before it has produced its outcome,
\* and no attempt (a timed-out one in particular) causes more than one retry.
C5_AttemptsAreSequential ==
  /\ Cardinality(InFlight) + Cardinality(timers) <= 1
  /\ \A a \in Attempts :
       a > 1 => attempts[a - 1].ended # Undef /\ attempts[a - 1].ended <= attempts[a].start
  /\ \A a \in Attempts : RetriesCausedBy(a) <= 1

(* ------------------------------------------------------------------ *)
(* C6  The wait before a retry is the retryDelay of the options.      *)
(* ------------------------------------------------------------------ *)
\* the delay the caller configured: options.retryDelay, or the default without it
ConfiguredRetryDelay ==
  IF opts.retryDelay = Undef THEN DEFAULT_RETRY_DELAY ELSE opts.retryDelay

\* C6: every retry of a call is scheduled retryDelay ms after the failure that
\* caused it, retryDelay being the value passed in the call's options.
C6_WaitIsTheOptionsRetryDelay ==
  /\ \A tm \in timers : tm.due - attempts[tm.from].ended = ConfiguredRetryDelay
  /\ \A a \in Attempts :
       attempts[a].parent # 0 =>
         attempts[a].start - attempts[attempts[a].parent].ended = ConfiguredRetryDelay

(* ------------------------------------------------------------------ *)
(* C7  The retry delay is fixed.                                      *)
(* ------------------------------------------------------------------ *)
\* the wait before the retry that started attempt a
WaitBefore(a) == attempts[a].start - attempts[attempts[a].parent].ended

Describes(error, a) ==
  /\ error.attempt = a
  /\ CASE error.kind = "status"    -> attempts'[a].result = "status"
       [] error.kind = "transport" -> attempts'[a].result = "transport"
       [] error.kind = "timeout"   -> attempts'[a].result = "timeout"
                                        /\ error.code = attempts'[a].timeout
       [] error.kind = "hangup"    -> attempts'[a].result = "timeout"
       [] OTHER                    -> FALSE

\* C8: whenever a handler delivers the error of an exhausted retry budget, that
\* error describes the failure of the last attempt the call has started, never
\* that of an earlier attempt.
C8_ExhaustionErrorIsOfLastAttempt ==
  [][\A c \in (Len(calls) + 1)..Len(calls') :
       calls'[c].err.kind \in ExhaustionKinds =>
         Describes(calls'[c].err, Len(attempts'))]_vars

(* ------------------------------------------------------------------ *)
(* C9  When a timeout failure reaches the caller.                     *)
(* ------------------------------------------------------------------ *)
\* every attempt on the way to attempt a timed out, as a did
ServerAlwaysTooSlow(a) == \A b \in Chain(a) : attempts[b].result = "timeout"

\* C9 as stated: when the server takes longer than the timeout to respond, the
\* timeout failure is delivered one timeout period after the start of the call.
C9_TimeoutFailureOnePeriodAfterCallStart ==
  \A c \in Calls :
    (calls[c].err.kind = "timeout" /\ ServerAlwaysTooSlow(calls[c].by)) =>
      calls[c].at - attempts[1].start = attempts[1].timeout

\* C9 as amended: a timeout failure is delivered only by an attempt with no
\* retries left, one timeout period after the start of that attempt, and names
\* the timeout; when the server is too slow for every attempt, that is
\* (retries + 1) timeout periods and retries retry delays after the start of the
\* call, and so one timeout period after it only for retries = 0.
C9_TimeoutFailureOnePeriodAfterLastAttemptStart ==
  \A c \in Calls :
    calls[c].err.kind = "timeout" =>
      LET a == calls[c].by IN
      /\ attempts[a].retriesLeft = 0
      /\ calls[c].err.code = attempts[a].timeout
      /\ calls[c].at = attempts[a].start + attempts[a].timeout
      /\ ServerAlwaysTooSlow(a) =>
           calls[c].at - attempts[1].start =
             (Retries + 1) * attempts[1].timeout + Retries * DEFAULT_RETRY_DELAY

\* a call with retries to spare whose every attempt timed out has delivered its
\* timeout failure
C9_Witness ==
  \E c \in Calls :
    /\ calls[c].err.kind = "timeout"
    /\ ServerAlwaysTooSlow(calls[c].by)
    /\ Retries >= 1

(* ------------------------------------------------------------------ *)
(* C10  makeRequestPromise resolves with every parsed value.          *)
(* ------------------------------------------------------------------ *)
\* C10: when the first outcome of a makeRequestPromise call is a 2xx response
\* whose body is valid JSON, the promise is fulfilled with the parsed value,
\* whatever value that is.
C10_ValidJsonResolves ==
  (mode = "promise" /\ Len(calls) >= 1 /\ calls[1].err = NoError) =>
    (promise.state = "fulfilled" /\ promise.value = calls[1].data)

(* ------------------------------------------------------------------ *)
(* C11  A failure is one Error and no data; a success has no error.   *)
(* ------------------------------------------------------------------ *)
\* C11: every invocation of the callback carries either an Error and no data or
\* a null error and the parsed data, never both; it carries the null error only
\* for an attempt whose response was a parsed 2xx, and an Error for every
\* attempt that failed (transport, status, timeout, malformed body); the promise
\* of makeRequestPromise is rejected only with an Error and without a value.
C11_ErrorXorData ==
  /\ \A c \in Calls :
       /\ (calls[c].err = NoError) # (calls[c].data = Undefined)
       /\ calls[c].err = NoError => attempts[calls[c].by].result = "success"
       /\ attempts[calls[c].by].result # "success" =>
            calls[c].err.kind \in ExhaustionKinds \cup {"parse"}
  /\ promise.state = "rejected" =>
       promise.error # NoError /\ promise.value = Undefined
  /\ promise.state = "fulfilled" =>
       promise.error = NoError /\ promise.value # Undefined

\* a makeRequestPromise call was rejected with the status failure of an attempt
\* that had no retries left
C11_Witness ==
  /\ mode = "promise"
  /\ promise.state = "rejected"
  /\ promise.error.kind = "status"
  /\ \E c \in Calls : calls[c].err = promise.error /\ calls[c].data = Undefined

(* ------------------------------------------------------------------ *)
(* C12  No path retries a parse failure.                              *)
(* ------------------------------------------------------------------ *)
\* the errors fetchNews throws for a 2xx response whose body cannot be parsed or
\* fails the shape check
NewsParseFailures ==
  {"News API Error: parse", "News API Error: Invalid news data structure"}

\* C12: in the retry demonstration, fetchWithRetry(() => fetchNews(), 2, 500), a
\* news fetch that failed on an unparsable body or on the shape check ends the
\* operation with a thrown error, and no HTTP attempt starts after that failure.
C12_ParseFailureEndsTheOperation ==
  \A f \in Fetches :
    (fetches[f].state = "rejected" /\ fetches[f].error.kind \in NewsParseFailures) =>
      /\ dash.phase = "threw"
      /\ \A b \in 1..Len(attempts) : attempts[b].start <= fetches[f].settled

(* ------------------------------------------------------------------ *)
(* C13  The three sequential demonstrations do the same.              *)
(* ------------------------------------------------------------------ *)
\* C13: when the sequential demonstrations of the three styles run against
\* endpoints that answer the k-th request of each run alike, no run makes a
\* request that the first run did not make, and the three runs end having made
\* the same sequence of HTTP attempts and reported the same outcome.
C13_SequentialStylesAgree ==
  demo = "sequential" =>
    /\ dash.obs # <<>> => \A a \in InFlight : ScriptFor(a) # {}
    /\ (Quiet /\ Len(dash.obs) + 1 = Len(Styles)) =>
         /\ dash.obs[1] = dash.obs[2]
         /\ dash.obs[2] = Observation

(* ------------------------------------------------------------------ *)
(* C14  fetchNews accepts only a non-empty list of posts.             *)
(* ------------------------------------------------------------------ *)
\* C14: in each style, a news fetch delivers success only with a response whose
\* posts list is present and not empty, and the demonstration never holds
\* other news data.
C14_NewsHasPosts ==
  /\ \A f \in Fetches :
       (fetches[f].op.kind = "news" /\ fetches[f].state = "fulfilled") =>
         Posts(fetches[f].value) = "nonempty"
  /\ demo = "sequential" =>
       (dash.news # Undefined => Posts(dash.news) = "nonempty")

(* ------------------------------------------------------------------ *)
(* C15  News is fetched only after weather succeeded.                 *)
(* ------------------------------------------------------------------ *)
\* the fetches of the run in progress that fetch `kind`
RunFetches(kind) ==
  {f \in Fetches : fetches[f].call > dash.base /\ fetches[f].op.kind = kind}

\* fetch f has delivered a failure: its promise is rejected or, in the callback
\* style, its callback was invoked with an error
DeliveredFailure(f) ==
  IF fetches[f].op.style = "callback"
  THEN \E c \in Calls :
         /\ CallOf(calls[c].by) = fetches[f].call
         /\ ~FetchResult(fetches[f].op, calls[c].err, calls[c].data).ok
  ELSE fetches[f].state = "rejected"

\* C15: in a sequential demonstration a news fetch is started only once the
\* weather fetch has delivered success; and once the weather fetch has delivered
\* a failure, no news fetch is started, the failure is reported and no combined
\* result is.
C15_NewsOnlyAfterWeather ==
  demo = "sequential" =>
    /\ RunFetches("news") # {} => dash.weather # Undefined
    /\ \A w \in RunFetches("weather") :
         DeliveredFailure(w) =>
           /\ RunFetches("news") = {}
           /\ \E i \in 1..Len(dash.reports) : dash.reports[i] = "failure"
           /\ \A i \in 1..Len(dash.reports) : dash.reports[i] # "success"

(* ------------------------------------------------------------------ *)
(* C16  Concurrent-all: a result iff both succeed; fail fast.         *)
(* ------------------------------------------------------------------ *)
\* fetch f has delivered a success: its promise is fulfilled or, in the callback
\* style, its callback was invoked with data
DeliveredSuccess(f) ==
  IF fetches[f].op.style = "callback"
  THEN \E c \in Calls :
         /\ CallOf(calls[c].by) = fetches[f].call
         /\ FetchResult(fetches[f].op, calls[c].err, calls[c].data).ok
  ELSE fetches[f].state = "fulfilled"

\* the demonstration has produced the combined result / has reported a failure
Combined == \E i \in 1..Len(dash.reports) : dash.reports[i] = "success"
Failed == \E i \in 1..Len(dash.reports) : dash.reports[i] = "failure"

\* C16: in the three concurrent-all demonstrations the combined result has been
\* produced exactly when both fetches have delivered success and none a failure,
\* and the demonstration has failed, without a combined result, from the moment
\* one fetch delivered a failure, whatever the state of the other fetch.
C16_AllIffBothSucceed ==
  demo = "all" =>
    /\ Combined <=>
         \A f \in Fetches : DeliveredSuccess(f) /\ ~DeliveredFailure(f)
    /\ (\E f \in Fetches : DeliveredFailure(f)) => Failed

(* ------------------------------------------------------------------ *)
(* C17  Concurrent-all takes as long as the longer fetch.             *)
(* ------------------------------------------------------------------ *)
\* how long fetch f took to settle
Duration(f) == fetches[f].settled - fetches[f].at

Longest(S) == CHOOSE d \in S : \A x \in S : x <= d

\* C17: in demonstratePromiseAll and demonstrateParallelAsync both fetches are
\* started together, before either has settled; and when the combined result is
\* produced both fetches are fulfilled and the time elapsed since the start is
\* the longer of the two durations.
C17_AllTakesTheLongerFetch ==
  (demo = "all" /\ dash.style # "callback") =>
    /\ Len(fetches) = 2
    /\ fetches[1].at = fetches[2].at
    /\ \A f \in Fetches :
         fetches[f].state # "pending" =>
           \A g \in Fetches : fetches[g].at < fetches[f].settled
    /\ dash.phase = "fulfilled" =>
         /\ \A f \in Fetches : fetches[f].state = "fulfilled"
         /\ dash.at - fetches[1].at = Longest({Duration(f) : f \in Fetches})

\* the combined result was produced after two fetches of different durations
C17_Witness ==
  /\ demo = "all"
  /\ dash.style # "callback"
  /\ dash.phase = "fulfilled"
  /\ Duration(1) > Duration(2)
  /\ dash.at - fetches[1].at < Duration(1) + Duration(2)

(* ------------------------------------------------------------------ *)
(* C18  Promise.allSettled: three outcomes, in input order.           *)
(* ------------------------------------------------------------------ *)
\* the first invocation of the callback of the HttpClient call of fetch f
FirstCall(f) ==
  calls[CHOOSE c \in Calls :
          /\ CallOf(calls[c].by) = fetches[f].call
          /\ \A b \in 1..(c - 1) : CallOf(calls[b].by) # fetches[f].call]

\* the weather fetch was given a forecast / the news fetch a list of posts
WeatherSucceeds == FirstCall(1).data = JsVal("object", WeatherJson)
NewsSucceeds == FirstCall(3).data = JsVal("object", NewsJson)

\* the status of each outcome that demonstratePromiseAllSettled reports
SettledStatuses == [i \in 1..Len(dash.results) |-> dash.results[i].status]

\* C18: the promise of Promise.allSettled is never rejected; it is fulfilled
\* exactly when the weather fetch, the request of the invalid URL and the news
\* fetch have all settled; its result has one outcome for each of the three, in
\* that order, each being the outcome of that operation; the request of the
\* invalid URL is rejected, and when the weather and the news fetch succeed the
\* outcomes are fulfilled, rejected, fulfilled.
C18_AllSettledReportsEveryOutcome ==
  demo = "settled" =>
    /\ dash.phase # "rejected"
    /\ dash.phase = "fulfilled" <=> \A f \in Fetches : fetches[f].state # "pending"
    /\ dash.phase = "fulfilled" =>
         /\ Len(dash.results) = 3
         /\ <<fetches[1].op.kind, fetches[2].op.kind, fetches[3].op.kind>>
              = <<"weather", "invalid", "news">>
         /\ \A i \in 1..3 : dash.results[i] = SettledResult(fetches[i])
         /\ dash.results[2].status = "rejected"
         /\ (WeatherSucceeds /\ NewsSucceeds) =>
              SettledStatuses = <<"fulfilled", "rejected", "fulfilled">>
         /\ dash.at = Longest({fetches[f].settled : f \in Fetches})

\* the three outcomes are reported for {success, always-fail, success}, the
\* failing request having settled last
C18_Witness ==
  /\ demo = "settled"
  /\ dash.phase = "fulfilled"
  /\ WeatherSucceeds /\ NewsSucceeds
  /\ SettledStatuses = <<"fulfilled", "rejected", "fulfilled">>
  /\ fetches[2].settled > fetches[3].settled

(* ------------------------------------------------------------------ *)
(* C19  Fallback on failure: each side replaced on its own.           *)
(* ------------------------------------------------------------------ *)
\* what demonstrateConcurrentAsync must return for the weather / the news side:
\* the value fetched when the first answer HttpClient passed on is a forecast /
\* a non-empty list of posts, else the fallback
ExpectedWeather ==
  IF FirstCall(1).data = JsVal("object", WeatherJson)
  THEN WeatherData(FirstCall(1).data) ELSE FallbackWeatherData
ExpectedNews ==
  IF FirstCall(2).data = JsVal("object", NewsJson)
  THEN FirstCall(2).data ELSE FallbackNewsData

\* C19: demonstrateConcurrentAsync never returns null; it returns once both
\* fetches have settled, and then the weather side is the fetched weather if
\* the weather fetch succeeded and the fallback weather if it failed, and the
\* news side is the fetched news if the news fetch succeeded and the fallback
\* news if it failed, whatever happened to the other side.
C19_ConcurrentAsyncFallsBack ==
  demo = "concurrent" =>
    /\ dash.phase \in {"pending", "returned"}
    /\ dash.phase = "returned" <=> \A f \in Fetches : fetches[f].state # "pending"
    /\ dash.phase = "returned" =>
         /\ dash.weatherData = ExpectedWeather
         /\ dash.newsData = ExpectedNews
         /\ dash.weatherData = IF fetches[1].state = "fulfilled"
                               THEN fetches[1].value ELSE FallbackWeatherData
         /\ dash.newsData = IF fetches[2].state = "fulfilled"
                            THEN fetches[2].value ELSE FallbackNewsData

\* the weather fetch failed and the news fetch succeeded: a dashboard of the
\* fallback weather and the fetched news was returned
C19_Witness ==
  /\ demo = "concurrent"
  /\ dash.phase = "returned"
  /\ fetches[1].state = "rejected"
  /\ fetches[2].state = "fulfilled"
  /\ dash.weatherData = FallbackWeatherData
  /\ dash.newsData = JsVal("object", NewsJson)

(* ------------------------------------------------------------------ *)
(* C20  Promise.race: the first to settle decides.                    *)
(* ------------------------------------------------------------------ *)
\* the promises of the race that have settled, and the one that settled first
RaceSettled == {p \in {dash.fast, dash.medium, dash.slow} : p.state # "pending"}
RaceFirst == CHOOSE p \in RaceSettled : \A q \in RaceSettled : p.at <= q.at

\* C20: the promise of Promise.race is pending as long as none of the 800 ms
\* timer, the news request and the 2000 ms timer has settled, and from then on
\* it is settled as the one that settled first, whatever the other two do later;
\* in particular it is rejected, with the error of the request, when the news
\* request settles first and fails.
C20_RaceFirstSettledWins ==
  demo = "race" =>
    /\ dash.race.state = "pending" <=> RaceSettled = {}
    /\ RaceSettled # {} => dash.race = RaceFirst
    /\ dash.medium.state = fetches[1].state
    /\ dash.medium.state # "pending" => dash.medium.at = fetches[1].settled
    /\ (RaceSettled # {} /\ RaceFirst = dash.medium /\ fetches[1].state = "rejected") =>
         /\ dash.race.state = "rejected"
         /\ dash.race.error = FirstCall(1).err
         /\ FirstCall(1).err # NoError

\* the news request failed before the 800 ms timer fired: the race is rejected,
\* and stays so after the timer has fulfilled fastPromise
C20_Witness ==
  /\ demo = "race"
  /\ dash.medium.state = "rejected"
  /\ dash.fast.state = "fulfilled"
  /\ dash.medium.at < dash.fast.at
  /\ dash.race.state = "rejected"

(* ------------------------------------------------------------------ *)
(* C21  No cancellation from an outer scope.                          *)
(* ------------------------------------------------------------------ *)
\* the invocations of the callback made by the handlers of attempt a
CallsBy(a) == {k \in Calls : calls[k].by = a}

\* the invocations of the callback of the call of fetch f, in order
CallsOfFetch(f) ==
  SelectSeq([k \in Calls |-> k], LAMBDA k : CallOf(calls[k].by) = fetches[f].call)

\* the request of attempt a was aborted: destroyed before it ended or failed
Aborted(a) == attempts[a].st \in {"destroyed", "closed"}

\* every call has reached its outcome: each attempt has had its event, each
\* failure with retries left was followed by a retry, each fetch has settled
EveryCallRanToItsEnd ==
  /\ \A a \in Attempts :
       /\ attempts[a].result # "pending"
       /\ (attempts[a].result \in Transient /\ attempts[a].retriesLeft > 0) =>
            RetriesCausedBy(a) >= 1
       /\ attempts[a].result \in {"success", "parse"} => CallsBy(a) # {}
  /\ \A f \in Fetches : fetches[f].state # "pending" /\ CallsOfFetch(f) # <<>>

\* a step takes an attempt out of flight only by an event of that attempt, and
\* a pending retry out of the timers only by starting the attempt it is for
NothingIsGivenUp ==
  /\ Len(attempts') >= Len(attempts)
  /\ \A a \in InFlight :
       \/ attempts'[a] = attempts[a]
       \/ /\ attempts'[a].ended = now'
          /\ attempts'[a].result \in {"success", "parse", "status", "transport", "timeout"}
          /\ attempts'[a].result = "timeout" <=> attempts'[a].st \in {"destroyed", "closed"}
  /\ \A tm \in timers \ timers' :
       \E b \in (Len(attempts) + 1)..Len(attempts') :
         /\ attempts'[b].parent = tm.from
         /\ attempts'[b].start = tm.due
         /\ attempts'[b].retriesLeft = tm.retriesLeft

\* C21: in demonstratePromiseRace, demonstrateAsyncWithTimeout and
\* demonstratePromiseAll, whether or not the promise the demonstration awaits
\* has settled, a request is aborted only by the timeout of its own attempt, no
\* attempt in flight and no pending retry is given up, and when nothing is
\* pending any more every fetch has run to its own outcome.
C21_LosersRunToTheirEnd ==
  /\ [](\A a \in Attempts :
          Aborted(a) =>
            /\ attempts[a].result = "timeout"
            /\ attempts[a].ended = attempts[a].start + attempts[a].timeout)
  /\ []((demo # "none" /\ Quiet) => EveryCallRanToItsEnd)
  /\ [][NothingIsGivenUp]_vars

\* the timer of demonstrateAsyncWithTimeout won the race while a fetch was in
\* flight; the fetch then timed out, was retried and settled
C21_Witness ==
  /\ demo = "timeout"
  /\ dash.phase = "rejected"
  /\ dash.error.kind = "Operation timed out"
  /\ Quiet
  /\ \E a \in Attempts : attempts[a].start > dash.at
  /\ \E f \in Fetches : fetches[f].state = "fulfilled" /\ fetches[f].settled > dash.at

(* ------------------------------------------------------------------ *)
(* C22  The milestones of the streaming demonstration.                *)
(* ------------------------------------------------------------------ *)
\* the milestones of a run in which both fetches succeed
Milestones ==
  <<"Starting data fetch operations", "Initiating weather API request",
    "Weather data received", "Initiating news API request",
    "News data received", "All operations completed successfully">>

\* the texts of the updates logged so far
Updates == [i \in 1..Len(dash.updates) |-> dash.updates[i].text]

\* the updates that are the error milestone
Errors == {i \in 1..Len(dash.updates) : dash.updates[i].text = "Error occurred"}

\* the fetches of a kind
FetchesOf(kind) == {f \in Fetches : fetches[f].op.kind = kind}

\* C22: the updates logged are the milestones in their order, up to the point
\* reached, or, after a fetch has failed, the milestones up to the one that
\* announced that fetch followed by exactly one error milestone, after which
\* nothing more is emitted; consecutive updates are at least the processing
\* delay apart; the weather fetch is started once, no earlier than the delay
\* after its announcement, the news fetch once, only after the weather fetch
\* succeeded and no earlier than the delay after its own announcement; and the
\* loop of processAsyncGenerator never ends by an exception.
C22_StreamMilestonesInOrder ==
  demo = "stream" =>
    LET n == Len(dash.updates) IN
    /\ dash.phase # "threw"
    /\ \/ n <= Len(Milestones) /\ Updates = SubSeq(Milestones, 1, n)
       \/ /\ n \in {3, 5}
          /\ Errors = {n}
          /\ SubSeq(Updates, 1, n - 1) = SubSeq(Milestones, 1, n - 1)
          /\ fetches[Len(fetches)].state = "rejected"
    /\ \A i \in 2..n : dash.updates[i].at >= dash.updates[i - 1].at + STREAM_DELAY
    /\ Len(fetches) <= 2
    /\ \A f \in Fetches : fetches[f].op.kind = IF f = 1 THEN "weather" ELSE "news"
    /\ \A f \in Fetches :
         /\ n >= 2 * f
         /\ fetches[f].at = dash.updates[2 * f].at + STREAM_DELAY
         /\ fetches[f].state = "fulfilled" =>
              (n > 2 * f /\ dash.updates[2 * f + 1].at = fetches[f].settled)
    /\ \A f \in FetchesOf("news") :
         /\ fetches[1].state = "fulfilled"
         /\ fetches[f].at > fetches[1].settled
    /\ Errors # {} <=> \E f \in Fetches : fetches[f].state = "rejected"
    /\ dash.phase = "done" =>
         \/ Updates = Milestones
         \/ Errors # {}

\* the weather fetch succeeded and the news fetch failed: the stream has ended
\* after the announcement of the news fetch and one error milestone
C22_Witness ==
  /\ demo = "stream"
  /\ dash.phase = "done"
  /\ Updates = SubSeq(Milestones, 1, 4) \o <<"Error occurred">>
  /\ fetches[2].state = "rejected"

(* ------------------------------------------------------------------ *)
(* C23  Concurrent calls are independent.                             *)
(* ------------------------------------------------------------------ *)
\* the values the endpoint of a URL can give a call
ValuesOf(url) == {JsonParse(r[2]).val : r \in {x \in DemoResponses(url) : JsonParse(x[2]).ok}}

\* Attempt a is as the events of its own call leave it: it has the URL and the
\* timeout of the call; it is a first attempt with the default budget or a
\* retry, with one retry less, of a failed attempt of the same call that had
\* retries left; only its own timeout closed its request; it caused a retry
\* only by failing with retries left, and as many retries as it raised failure
\* events; and its handlers invoked the callback only with its own outcome.
OwnEventsOnly(a) ==
  LET at == attempts[a]
      failures == IF at.result \in {"status", "transport"} THEN {1}
                  ELSE IF at.result = "timeout"
                       THEN IF at.st = "destroyed" THEN {1} ELSE {1, 2}
                       ELSE {0}
  IN /\ at.url = attempts[CallOf(a)].url
     /\ at.timeout = DEFAULT_TIMEOUT
     /\ at.parent = 0 => at.retriesLeft = DEFAULT_RETRIES
     /\ at.parent # 0 =>
          /\ CallOf(at.parent) = CallOf(a)
          /\ attempts[at.parent].retriesLeft > 0
          /\ attempts[at.parent].result \in Transient
          /\ at.retriesLeft = attempts[at.parent].retriesLeft - 1
          /\ at.start = attempts[at.parent].ended + DEFAULT_RETRY_DELAY
     /\ at.st \in {"destroyed", "closed"} =>
          at.result = "timeout" /\ at.ended = at.start + at.timeout
     /\ IF at.retriesLeft > 0
        THEN RetriesCausedBy(a) \in failures
        ELSE RetriesCausedBy(a) = 0
     /\ Cardinality(CallsBy(a)) \in
          (IF at.result \in {"success", "parse"} THEN {1}
           ELSE IF at.retriesLeft = 0 THEN failures ELSE {0})
     /\ \A k \in CallsBy(a) :
          /\ calls[k].at = at.ended
          /\ IF at.result = "success"
             THEN calls[k].err = NoError /\ calls[k].data \in ValuesOf(at.url)
             ELSE calls[k].err.attempt = a /\ calls[k].data = Undefined

\* Fetch f is as the invocations of the callback of its own call leave it:
\* pending without any, else settled with the first of them (a promise) or
\* holding the last of them (a callback-style fetch).
OwnCallOnly(f) ==
  LET ks == CallsOfFetch(f)
      k == IF fetches[f].op.style = "callback" THEN ks[Len(ks)] ELSE ks[1]
  IN IF ks = <<>> THEN fetches[f].state = "pending"
     ELSE LET r == FetchResult(fetches[f].op, calls[k].err, calls[k].data) IN
          /\ fetches[f].state = IF r.ok THEN "fulfilled" ELSE "rejected"
          /\ fetches[f].value = r.value
          /\ fetches[f].error = r.error
          /\ fetches[f].settled = calls[k].at

\* C23: while two fetches are in progress together, under every interleaving of
\* their events, the attempts, the retry budget and the callback invocations of
\* each call, and the outcome of each fetch, are determined by the events of
\* that call's own attempts: nothing that happens to one call starts, aborts or
\* spends a retry of the other, or reaches the callback of the other.
C23_ConcurrentCallsAreIndependent ==
  demo = "all" =>
    /\ \A a \in Attempts : OwnEventsOnly(a)
    /\ \A f \in Fetches : OwnCallOnly(f)
    /\ \A f, g \in Fetches : f # g => fetches[f].call # fetches[g].call

\* one call timed out and was retried twice while the other call, started at
\* the same time, succeeded on its first attempt with its budget untouched
C23_Witness ==
  /\ demo = "all"
  /\ Quiet
  /\ \E a, b \in Attempts :
       /\ attempts[a].parent = 0 /\ attempts[b].parent = 0 /\ a # b
       /\ attempts[a].start = attempts[b].start
       /\ attempts[a].result = "timeout"
       /\ RetriesCausedBy(a) = 2
       /\ attempts[b].result = "success"
       /\ AttemptsOfCall(b) = {b}
       /\ Cardinality(CallsBy(b)) = 1

(* ------------------------------------------------------------------ *)
(* C24  The buckets of getWeatherDescription.                         *)
(* ------------------------------------------------------------------ *)
\* the bucket the specification gives temperature t
Bucket(t) ==
  CASE t < Tenths(0)                       -> "Very Cold"
    [] Tenths(0) <= t /\ t < Tenths(10)    -> "Cold"
    [] Tenths(10) <= t /\ t < Tenths(20)   -> "Cool"
    [] Tenths(20) <= t /\ t < Tenths(30)   -> "Warm"
    [] t >= Tenths(30)                     -> "Hot"

\* C24: each of the three versions of getWeatherDescription gives a temperature
\* the bucket of the table (Very Cold below 0, Cold from 0, Cool from 10, Warm
\* from 20, Hot from 30), so 15 is Cool, -2 Very Cold and 35 Hot, and the three
\* versions give the same bucket.
C24_DescriptionIsTheBucket ==
  demo = "describe" =>
    /\ \A d \in {dash.callback, dash.promise, dash.async} :
         d # NoDescription => d.words = Bucket(dash.temperature)
    /\ AsyncGetWeatherDescription(Tenths(15)).words = "Cool"
    /\ AsyncGetWeatherDescription(Tenths(-2)).words = "Very Cold"
    /\ AsyncGetWeatherDescription(Tenths(35)).words = "Hot"
    /\ \A t \in Temperatures :
         /\ CallbackGetWeatherDescription(t).words = AsyncGetWeatherDescription(t).words
         /\ PromiseGetWeatherDescription(t).words = AsyncGetWeatherDescription(t).words

\* the three versions have described a temperature on a boundary: 10 degrees
C24_Witness ==
  /\ demo = "describe"
  /\ dash.temperature = Tenths(10)
  /\ dash.callback.words = "Cool"
  /\ dash.promise.words = "Cool"
  /\ dash.async.words = "Cool"

(* ------------------------------------------------------------------ *)
(* C25  The versions run one after the other.                         *)
(* ------------------------------------------------------------------ *)
\* the attempts of the fetches of the callback version
CallbackAttempts ==
  {a \in Attempts : fetches[FetchOfCall(CallOf(a))].op.style = "callback"}

\* something of the callback demonstration is pending: a request in flight or
\* being destroyed, a retry timer, or a timer of demonstrateCallbackHell
CallbackVersionPending ==
  \/ (InFlight \cup Destroyed) \cap CallbackAttempts # {}
  \/ \E tm \in timers : tm.from \in CallbackAttempts
  \/ \E tm \in dtimers : tm.tag \notin {"footer", "runner delay"}

\* C25: when runAllVersions starts the promise version, nothing of the callback
\* demonstration is pending.
C25_PromiseVersionAfterCallbackVersion ==
  (demo = "run" /\ dash.promiseRunAt # Undef) => ~CallbackVersionPending

(* ------------------------------------------------------------------ *)
(* C26  Exponential backoff.                                          *)
(* ------------------------------------------------------------------ *)
\* the retries of the call that retried a failed retry
LaterRetries ==
  {a \in Attempts : attempts[a].parent # 0 /\ attempts[attempts[a].parent].parent # 0}

\* C26: within one call the wait before a retry is longer than the wait before
\* the retry it follows, and the ratio of the two is the same for every retry.
C26_RetryDelayGrows ==
  /\ \A a \in LaterRetries : WaitBefore(a) > WaitBefore(attempts[a].parent)
  /\ \A a, b \in LaterRetries :
       WaitBefore(a) * WaitBefore(attempts[b].parent)
         = WaitBefore(b) * WaitBefore(attempts[a].parent)

(* ------------------------------------------------------------------ *)
(* C27  The footer of the callback version.                           *)
(* ------------------------------------------------------------------ *)
\* C27: once CallbackDashboard.run has logged its footer, nothing of the
\* callback demonstration (sequential chain, parallel callbacks, retries) is in
\* flight or pending.
C27_FooterAfterTheDemonstration ==
  (demo = "run" /\ dash.footer # Undef) => ~CallbackVersionPending

(* ------------------------------------------------------------------ *)
(* C28  The callback of a call is invoked at most once.               *)
(* ------------------------------------------------------------------ *)
\* C28: whatever the order of the 'end', 'error' and 'timeout' events of the
\* attempts of a call, and also when the caller's callback throws on the success
\* value, the callback of the call is invoked no more than once.
C28_CallbackAtMostOnce ==
  \A a \in Attempts :
    attempts[a].parent = 0 =>
      Cardinality({k \in Calls : CallOf(calls[k].by) = a}) <= 1

(* ------------------------------------------------------------------ *)
(* C29  Every call is answered.                                       *)
(* ------------------------------------------------------------------ *)
\* C29: once a call is made, its callback is eventually invoked, the promise of
\* makeRequestPromise is eventually settled, and eventually no attempt is in
\* flight and no retry is pending: the call makes finitely many attempts.
C29_EveryCallIsAnswered ==
  /\ (pc = "called") ~> (Len(calls) > 0)
  /\ (pc = "called" /\ mode = "promise") ~> (promise.state \in {"fulfilled", "rejected"})
  /\ (pc = "called") ~> [](Quiescent /\ Len(calls) > 0)

\* a call was answered after a retry, every retry it scheduled having started
C29_Witness ==
  /\ demo = "none"
  /\ Quiescent
  /\ Len(attempts) > 1
  /\ Len(calls) > 0
  /\ mode = "promise"
  /\ promise.state = "rejected"
  /\ \A a \in Attempts : attempts[a].retriesLeft > 0 => RetriesCausedBy(a) > 0

(* ------------------------------------------------------------------ *)
(* C30  What a retry keeps and what it changes.                       *)
(* ------------------------------------------------------------------ *)
\* C30: the first attempt of a call has the URL of the call, the timeout of its
\* options and retriesLeft equal to the configured retries; every retry, pending
\* or started, has the URL and the timeout of the attempt it retries and one
\* retry less left, is caused only by an attempt with retries left, and no
\* attempt has a negative number of retries left.
C30_RetryKeepsUrlAndTimeout ==
  demo = "none" =>
    /\ \A a \in Attempts :
         /\ attempts[a].url = attempts[1].url
         /\ attempts[a].timeout = OptTimeout(opts)
         /\ attempts[a].retriesLeft >= 0
         /\ attempts[a].parent = 0 => attempts[a].retriesLeft = Retries
         /\ attempts[a].parent # 0 =>
              /\ attempts[attempts[a].parent].retriesLeft > 0
              /\ attempts[a].retriesLeft = attempts[attempts[a].parent].retriesLeft - 1
    /\ \A tm \in timers :
         /\ tm.url = attempts[tm.from].url
         /\ tm.timeout = attempts[tm.from].timeout
         /\ attempts[tm.from].retriesLeft > 0
         /\ tm.retriesLeft = attempts[tm.from].retriesLeft - 1

\* a call made with retries 2 and timeout 2000 has used up its retries
C30_Witness ==
  /\ demo = "none"
  /\ opts.retries = 2
  /\ opts.timeout = 2000
  /\ \E a \in Attempts :
       /\ attempts[a].retriesLeft = 0
       /\ attempts[a].parent # 0
       /\ attempts[attempts[a].parent].parent # 0
       /\ attempts[a].result \in Transient

(* ------------------------------------------------------------------ *)
(* C31  The completion report of the parallel callbacks.              *)
(* ------------------------------------------------------------------ *)
\* the places of the report `what` among the reports of the demonstration
ReportsOf(what) == {i \in 1..Len(dash.reports) : dash.reports[i] = what}

\* C31: in demonstrateParallelCallbacks the completion report is emitted at most
\* once, after no report of a failed fetch and only when weatherResult and
\* newsResult both hold data; and the dashboard is displayed at most once.
C31_ParallelCompletionOnce ==
  demo = "parallel" =>
    /\ Cardinality(ReportsOf("completed")) <= 1
    /\ Cardinality(ReportsOf("success")) <= 1
    /\ \A i \in ReportsOf("completed") :
         /\ dash.weatherResult # Undefined
         /\ dash.newsResult # Undefined
         /\ \A j \in ReportsOf("failure") : i < j

(* ------------------------------------------------------------------ *)
(* C32  fetchWithRetry: one invocation after the other.               *)
(* ------------------------------------------------------------------ *)
\* C32: fetchWithRetry(op, M, d) with M >= 1 invokes op again only after the
\* invocation before it failed, d after that failure, and never more than M
\* times; it returns exactly when an invocation succeeded, with the value of
\* that invocation, which is the last; and it throws exactly when the M-th
\* invocation failed, at once, with the error of that invocation.
C32_FetchWithRetrySequential ==
  (demo = "retry" /\ dash.maxRetries >= 1) =>
    LET n == Len(fetches) IN
    /\ n \in 1..dash.maxRetries
    /\ dash.attempt = n
    /\ \A f \in 2..n :
         /\ fetches[f - 1].state = "rejected"
         /\ fetches[f].at = fetches[f - 1].settled + dash.retryDelay
    /\ dash.phase = "returned" <=> fetches[n].state = "fulfilled"
    /\ dash.phase = "returned" => dash.result = fetches[n].value
    /\ dash.phase = "threw" <=> (n = dash.maxRetries /\ fetches[n].state = "rejected")
    /\ dash.phase = "threw" => dash.lastError = fetches[n].error /\ dtimers = {}
    /\ dash.phase = "delay" <=> (n < dash.maxRetries /\ fetches[n].state = "rejected")
    /\ dash.phase = "delay" =>
         \E tm \in dtimers : tm.due = fetches[n].settled + dash.retryDelay

\* every one of three invocations failed and the error of the third was thrown
C32_Witness ==
  /\ demo = "retry"
  /\ dash.maxRetries = 3
  /\ Len(fetches) = 3
  /\ dash.phase = "threw"
  /\ dash.lastError = fetches[3].error
  /\ fetches[3].error # fetches[2].error

(* ------------------------------------------------------------------ *)
(* C33  What fetchWithRetry throws.                                   *)
(* ------------------------------------------------------------------ *)
\* C33: for every maxRetries, when fetchWithRetry has thrown it has invoked the
\* operation at least once and the value thrown is the Error of the last failed
\* invocation.
C33_ThrowsTheLastError ==
  (demo = "retry" /\ dash.phase = "threw") =>
    /\ Len(fetches) >= 1
    /\ fetches[Len(fetches)].state = "rejected"
    /\ dash.lastError # NoError
    /\ dash.lastError = fetches[Len(fetches)].error

(* ------------------------------------------------------------------ *)
(* C34  The retry budgets of the retry demonstration multiply.        *)
(* ------------------------------------------------------------------ *)
\* C34: fetchWithRetry(() => fetchNews(), 2, 500) issues no more than
\* 2 x (DEFAULT_RETRIES + 1) HTTP requests in all, and the first request of each
\* invocation of fetchNews has DEFAULT_RETRIES retries left.
C34_NestedRetryBudget ==
  (demo \in {"retry", "outage"} /\ dash.maxRetries = RETRY_DEMO_MAX_RETRIES) =>
    /\ Len(attempts) <= dash.maxRetries * (DEFAULT_RETRIES + 1)
    /\ \A f \in Fetches : attempts[fetches[f].call].retriesLeft = DEFAULT_RETRIES

(* ------------------------------------------------------------------ *)
(* C35  run(): a failure ends the dashboard, the footer closes it.    *)
(* ------------------------------------------------------------------ *)
\* the first n of the demonstrations of run()
FirstDemonstrations(n) == SubSeq(Demonstrations(dash.version), 1, n)

\* the demonstrations that reject when a fetch of theirs fails
Throwing == {"chaining", "all", "race", "sequential"}

\* what run() has done so far: it called its demonstrations in order, each
\* after the one before it was fulfilled; it has caught at most one failure, of
\* the last demonstration it called or of the display of its result; and it is
\* over exactly when its footer is logged, once, as the last thing it did,
\* after all its demonstrations or after the failure.
RunLog ==
  demo = "dashboard" =>
    LET log == dash.log
        all == Len(Demonstrations(dash.version))
        n == IF RunIsOver(dash)
             THEN Cardinality({i \in 1..Len(log) : log[i] \notin {"caught", "footer"}})
             ELSE dash.stage
    IN /\ n \in 1..all
       /\ \/ ~RunIsOver(dash) /\ log = FirstDemonstrations(n)
          \/ RunIsOver(dash) /\ log = FirstDemonstrations(all) \o <<"footer">>
          \/ /\ RunIsOver(dash)
             /\ log = FirstDemonstrations(n) \o <<"caught", "footer">>
             /\ log[n] \in Throwing \cup {"concurrent", "timeout"}

\* while run() awaits a demonstration: a failed fetch has made a throwing
\* demonstration reject (in the race, if nothing settled before it), and the
\* other demonstrations do not reject
FailuresReachRun ==
  (demo = "dashboard" /\ ~RunIsOver(dash)) =>
    /\ Awaits(dash) \in {"chaining", "sequential", "all"} =>
         ((\E f \in Fetches : fetches[f].state = "rejected")
            <=> Outcome(dash) = "rejected")
    /\ Awaits(dash) = "race" =>
         ((fetches[1].state = "rejected" /\ fetches[1].settled < fetches[1].at + FAST_DELAY)
            <=> Outcome(dash) = "rejected")
    /\ Awaits(dash) \notin Throwing => Outcome(dash) # "rejected"

\* run() does not wait for ever: as long as it awaits a demonstration, a
\* request or a timer of that demonstration is pending
RunEnds ==
  Awaiting =>
    \/ \E a \in InFlight \cup Destroyed : \E f \in Fetches : fetches[f].call = CallOf(a)
    \/ \E tm \in timers : \E f \in Fetches : fetches[f].call = CallOf(tm.from)
    \/ \E tm \in dtimers : DashboardOnTimer(DCur, tm, now) # DCur

\* a step after a demonstration was rejected is the catch and the finally of
\* run(): no demonstration is called any more
FailureSkipsTheRest ==
  (demo = "dashboard" /\ ~RunIsOver(dash) /\ Outcome(dash) = "rejected") =>
    /\ RunIsOver(dash')
    /\ dash'.log = dash.log \o <<"caught", "footer">>
    /\ fetches' = fetches
    /\ attempts' = attempts

\* C35: PromiseDashboard.run and AsyncAwaitDashboard.run call their
\* demonstrations in order; the failure of a throwing demonstration is caught
\* and none of the demonstrations after it is called; and the footer is logged
\* once, last, after the last demonstration that was called.
C35_RunCatchesAndClosesOnce ==
  /\ []RunLog
  /\ []FailuresReachRun
  /\ []RunEnds
  /\ [][FailureSkipsTheRest]_vars

\* Promise.race was rejected by the news request, and run() skipped
\* demonstratePromiseAllSettled
C35_Witness ==
  /\ demo = "dashboard"
  /\ dash.log = <<"chaining", "all", "race", "caught", "footer">>
  /\ fetches[1].state = "rejected"

(* ------------------------------------------------------------------ *)
(* C36  demonstrateAsyncWithTimeout: data in time, or null.           *)
(* ------------------------------------------------------------------ *)
\* when the timer of timeoutPromise fires
Deadline == fetches[1].at + TIMEOUT_MS

\* the outcome of demonstrateAsyncWithTimeout is what the events up to its
\* decision make it: the combined data once both fetches have succeeded, null
\* once a fetch has failed or the timer has fired, and undecided until then
DecidedByTheFirstEvents ==
  demo = "timeout" =>
    /\ dash.phase = "pending" =>
         /\ dtimers # {}
         /\ \A f \in Fetches : fetches[f].state # "rejected"
         /\ \E f \in Fetches : fetches[f].state = "pending"
         /\ dash.reports = <<>>
    /\ dash.phase = "fulfilled" =>
         /\ \A f \in Fetches :
              fetches[f].state = "fulfilled" /\ fetches[f].settled <= dash.at
         /\ \E f \in Fetches : fetches[f].settled = dash.at
         /\ dash.at <= Deadline
         /\ dash.result = [f \in Fetches |-> fetches[f].value]
         /\ dash.reports = <<"success">>
    /\ dash.phase = "rejected" =>
         /\ dash.reports = <<"failure">>
         /\ dash.result = Undefined
         /\ \/ /\ dash.error = Err("Operation timed out", TIMEOUT_MS, 0)
               /\ dash.at = Deadline
               /\ dtimers = {}
               /\ \A f \in Fetches : fetches[f].state = "rejected" => fetches[f].settled >= Deadline
               /\ \E f \in Fetches : fetches[f].state = "pending" \/ fetches[f].settled >= Deadline
            \/ \E f \in Fetches :
                 /\ fetches[f].state = "rejected"
                 /\ fetches[f].settled = dash.at
                 /\ dash.error = fetches[f].error
                 /\ dash.at <= Deadline
                 /\ \A g \in Fetches : fetches[g].state = "rejected" => fetches[g].settled >= dash.at

\* once the outcome is decided no step changes it
DecidedOnce == (demo = "timeout" /\ dash.phase # "pending") => dash' = dash

\* C36: demonstrateAsyncWithTimeout returns the combined data exactly when both
\* fetches succeed before a fetch fails and before the 5000 ms timer fires, and
\* null when a fetch fails or the timer fires first; what arrives after the
\* decision changes nothing.
C36_AsyncWithTimeoutDecidesOnce ==
  []DecidedByTheFirstEvents /\ [][DecidedOnce]_vars

\* the timer decided, and a fetch succeeded after it
C36_Witness ==
  /\ demo = "timeout"
  /\ dash.phase = "rejected"
  /\ dash.error = Err("Operation timed out", TIMEOUT_MS, 0)
  /\ \E f \in Fetches : fetches[f].state = "fulfilled" /\ fetches[f].settled > dash.at

====
